---- MODULE Spec2Model ----
(***************************************************************************)
(* State-machine model of the bubble-shooter simulation and its advisor    *)
(* bridge: components/GeminiSlingshot.tsx (the frame tick onResults, the   *)
(* connectivity engine, performAiAnalysis) and the advisor service         *)
(* getStrategicHint.                                                       *)
(*                                                                         *)
(* Pixel coordinates are integers.  ROW_HEIGHT (22 * sqrt 3 = 38.105...)   *)
(* is truncated to 38; every distance test of the source is an integer     *)
(* comparison of squares.  The grid is a scaled-down copy of the source's  *)
(* 12-column grid (GRID_COLS, INIT_ROWS, SNAP_ROWS are bounds).            *)
(*                                                                         *)
(* Spec is the running game.  SpecHint is one call of getStrategicHint on  *)
(* its own, over a wider set of outcomes of the external call.             *)
(***************************************************************************)
EXTENDS Integers, Sequences, FiniteSets, TLC

----------------------------------------------------------------------------
(* Bounds of the model *)

\* columns of an even row (the source uses 12)
GRID_COLS == 2
\* rows filled by initGrid (the source fills rows 0..4)
INIT_ROWS == 2
\* rows scanned for a free slot on collision (the source scans GRID_ROWS + 5)
SNAP_ROWS == 3
\* how many of COLOR_KEYS the random initial fill draws from
InitPalette == 2
\* projectiles launched
MaxShots == 3
\* milliseconds of flight a frame tick of the model stands for
TickMs == 1500

----------------------------------------------------------------------------
(* Program constants *)

\* pinch distances are in hundredths of the normalised unit (0.05 = 5)
PINCH_THRESHOLD == 5
BUBBLE_RADIUS == 22
ROW_HEIGHT == 38
SLINGSHOT_BOTTOM_OFFSET == 220
MAX_DRAG_DIST == 180
MIN_LAUNCH_DIST == 30
CAPTURE_RADIUS == 120
FLIGHT_TIMEOUT_MS == 10000
MIN_MATCH == 3

COLOR_KEYS == <<"red", "blue", "green", "yellow", "purple", "orange">>

ValidColors == {COLOR_KEYS[i] : i \in 1..Len(COLOR_KEYS)}

\* COLOR_CONFIG[c].points; an unknown key has no entry (the lookup yields
\* undefined and reading a property of it throws)
ColorPoints(c) ==
    CASE c = "red" -> 100
      [] c = "blue" -> 150
      [] c = "green" -> 200
      [] c = "yellow" -> 250
      [] c = "purple" -> 300
      [] c = "orange" -> 500
      [] OTHER -> 0

\* the canvas takes the size of its container; the size is fixed here
CanvasWidth == GRID_COLS * BUBBLE_RADIUS * 2
CanvasHeight == 360

Pt(px, py) == [x |-> px, y |-> py]

anchorPos == Pt(CanvasWidth \div 2, CanvasHeight - SLINGSHOT_BOTTOM_OFFSET)

----------------------------------------------------------------------------
(* Grid geometry *)

IsOddRow(row) == row % 2 # 0

ColsOfRow(row) == IF IsOddRow(row) THEN GRID_COLS - 1 ELSE GRID_COLS

getBubblePos(row, col, width) ==
    LET xOffset == (width - (GRID_COLS * BUBBLE_RADIUS * 2)) \div 2 + BUBBLE_RADIUS
    IN  Pt(xOffset + col * (BUBBLE_RADIUS * 2) + (IF IsOddRow(row) THEN BUBBLE_RADIUS ELSE 0),
           BUBBLE_RADIUS + row * ROW_HEIGHT)

Abs(n) == IF n < 0 THEN -n ELSE n

\* a quotient rounded toward zero
Quot(a, b) == IF a >= 0 THEN a \div b ELSE -((-a) \div b)

DistSq(p, q) == (p.x - q.x) * (p.x - q.x) + (p.y - q.y) * (p.y - q.y)

\* the slots of rows 0 .. rows-1 in the scan order of the source's loops
RECURSIVE SlotsFrom(_, _, _)
SlotsFrom(r, c, rows) ==
    IF r >= rows THEN << >>
    ELSE IF c >= ColsOfRow(r) THEN SlotsFrom(r + 1, 0, rows)
    ELSE << <<r, c>> >> \o SlotsFrom(r, c + 1, rows)

SlotSeq(rows) == SlotsFrom(0, 0, rows)

\* a variant that forgets the column offset of the hex rows
isNeighborBug(a, b) ==
    LET dr == b.row - a.row
        dc == b.col - a.col
    IN  IF Abs(dr) > 1 THEN FALSE
        ELSE IF dr = 0 THEN Abs(dc) = 1
        ELSE dc = 0

\* a variant that applies the offset of the odd rows to every row
isNeighborOddOffset(a, b) ==
    LET dr == b.row - a.row
        dc == b.col - a.col
    IN  IF Abs(dr) > 1 THEN FALSE
        ELSE IF dr = 0 THEN Abs(dc) = 1
        ELSE dc = 0 \/ dc = 1

isNeighbor(a, b) ==
    LET dr == b.row - a.row
        dc == b.col - a.col
    IN  IF Abs(dr) > 1 THEN FALSE
        ELSE IF dr = 0 THEN Abs(dc) = 1
        ELSE IF IsOddRow(a.row) THEN (dc = 0 \/ dc = 1) ELSE (dc = -1 \/ dc = 0)

----------------------------------------------------------------------------
(* Connectivity engine.  bs is the bubble store (bubbles.current): a       *)
(* sequence of records [id, row, col, x, y, color, active]; a bubble is    *)
(* referred to by its index in the store.                                  *)

Indices(bs) == [i \in 1..Len(bs) |-> i]

IdsOf(q) == {q[i].id : i \in 1..Len(q)}

\* COLOR_CONFIG[color].hex throws a TypeError when color is no key
ConfigThrows(color) == color \notin ValidColors

\* the while loop of dropFloatingBubbles (lines 146-154)
RECURSIVE DropBfs(_, _, _, _)
DropBfs(activeBubbles, queue, head, connected) ==
    IF head > Len(queue) THEN connected
    ELSE LET curr == queue[head]
             neighbors == SelectSeq(activeBubbles,
                             LAMBDA n : n.id \notin connected /\ isNeighbor(curr, n))
         IN  DropBfs(activeBubbles, queue \o neighbors, head + 1,
                     connected \cup IdsOf(neighbors))

\* a variant that takes only the bubbles of row 0 as connected
ConnectedRowZero(bs) ==
    IdsOf(SelectSeq(bs, LAMBDA b : b.active /\ b.row = 0))

ConnectedIds(bs) ==
    LET activeBubbles == SelectSeq(bs, LAMBDA b : b.active)
        queue == SelectSeq(activeBubbles, LAMBDA b : b.row = 0)
    IN  DropBfs(activeBubbles, queue, 1, IdsOf(queue))

\* a variant of the forEach without the test of b.active
RECURSIVE DropEachAny(_, _, _)
DropEachAny(st, i, connected) ==
    IF i > Len(st.bubbles) THEN st
    ELSE LET b == st.bubbles[i]
         IN  IF b.id \notin connected
             THEN DropEachAny([st EXCEPT !.bubbles = [st.bubbles EXCEPT ![i].active = FALSE],
                                         !.scoreRef = @ + (ColorPoints(b.color) * 3) \div 4,
                                         !.dropped = @ + 1],
                              i + 1, connected)
             ELSE DropEachAny(st, i + 1, connected)

\* the forEach of dropFloatingBubbles (lines 157-165); st = [bubbles,
\* scoreRef, dropped, threw]
RECURSIVE DropEach(_, _, _)
DropEach(st, i, connected) ==
    IF i > Len(st.bubbles) THEN st
    ELSE LET b == st.bubbles[i]
         IN  IF b.active /\ b.id \notin connected
             THEN LET off == [st.bubbles EXCEPT ![i].active = FALSE]
                  IN  IF ConfigThrows(b.color)
                      THEN [st EXCEPT !.bubbles = off, !.threw = TRUE]
                      ELSE DropEach([st EXCEPT !.bubbles = off,
                                               !.scoreRef = @ + (ColorPoints(b.color) * 3) \div 4,
                                               !.dropped = @ + 1],
                                    i + 1, connected)
             ELSE DropEach(st, i + 1, connected)

\* a variant that sweeps nothing
dropFloatingBubblesNoop(bs, sRef, sState) ==
    [bubbles |-> bs, scoreRef |-> sRef, score |-> sState, threw |-> FALSE]

\* lines 166-168: setScore only when something was dropped
DropResult(r, sState) ==
    [bubbles |-> r.bubbles,
     scoreRef |-> r.scoreRef,
     score |-> IF ~r.threw /\ r.dropped > 0 THEN r.scoreRef ELSE sState,
     threw |-> r.threw]

\* result: [bubbles, scoreRef, score, threw]
dropFloatingBubbles(bs, sRef, sState) ==
    DropResult(DropEach([bubbles |-> bs, scoreRef |-> sRef, dropped |-> 0, threw |-> FALSE],
                        1, ConnectedIds(bs)),
               sState)

\* the while loop of checkMatches (lines 176-185); toCheck is a stack of
\* store indices, the result is the matches array (store indices)
RECURSIVE MatchLoop(_, _, _, _, _)
MatchLoop(bs, targetColor, toCheck, visited, matches) ==
    IF toCheck = << >> THEN matches
    ELSE LET current == toCheck[Len(toCheck)]
             rest == SubSeq(toCheck, 1, Len(toCheck) - 1)
         IN  IF bs[current].id \in visited
             THEN MatchLoop(bs, targetColor, rest, visited, matches)
             ELSE LET seen == visited \cup {bs[current].id}
                  IN  IF bs[current].color = targetColor
                      THEN LET neighbors == SelectSeq(Indices(bs),
                                   LAMBDA j : bs[j].active /\ bs[j].id \notin seen
                                              /\ isNeighbor(bs[current], bs[j]))
                           IN  MatchLoop(bs, targetColor, rest \o neighbors, seen,
                                         Append(matches, current))
                      ELSE MatchLoop(bs, targetColor, rest, seen, matches)

Matches(bs, start) == MatchLoop(bs, bs[start].color, <<start>>, {}, << >>)

SeqToSet(q) == {q[i] : i \in 1..Len(q)}

\* a variant without the multiplier of the larger matches
MatchScoreFlat(n, targetColor) == n * ColorPoints(targetColor)

\* floor(pts * (n > 3 ? 1.5 : 1.0))
MatchScore(n, targetColor) ==
    LET pts == n * ColorPoints(targetColor)
    IN  IF n > MIN_MATCH THEN (pts * 3) \div 2 ELSE pts

\* a variant that takes the bubbles out of the store
DeactivateRemoves(bs, idx) ==
    LET kept == SelectSeq(Indices(bs), LAMBDA i : i \notin idx)
    IN  [k \in 1..Len(kept) |-> bs[kept[k]]]

Deactivate(bs, idx) ==
    [i \in 1..Len(bs) |-> IF i \in idx THEN [bs[i] EXCEPT !.active = FALSE] ELSE bs[i]]

WithMatched(d) ==
    [bubbles |-> d.bubbles, scoreRef |-> d.scoreRef, score |-> d.score,
     threw |-> d.threw, matched |-> TRUE]

\* a variant that scores the matches array without the threshold test and
\* pops nothing
PopMatchesScoresAnyMatch(bs, matches, targetColor, sRef, sState) ==
    [bubbles |-> bs,
     scoreRef |-> sRef + MatchScore(Len(matches), targetColor),
     score |-> sRef + MatchScore(Len(matches), targetColor),
     threw |-> FALSE, matched |-> FALSE]

\* lines 186-199, given the matches array
PopMatches(bs, matches, targetColor, sRef, sState) ==
    IF Len(matches) >= MIN_MATCH
    THEN IF ConfigThrows(targetColor)
         THEN [bubbles |-> Deactivate(bs, {matches[1]}),
               scoreRef |-> sRef, score |-> sState, threw |-> TRUE, matched |-> TRUE]
         ELSE WithMatched(dropFloatingBubbles(Deactivate(bs, SeqToSet(matches)),
                              sRef + MatchScore(Len(matches), targetColor),
                              sRef + MatchScore(Len(matches), targetColor)))
    ELSE [bubbles |-> bs, scoreRef |-> sRef, score |-> sState,
          threw |-> FALSE, matched |-> FALSE]

\* result: [bubbles, scoreRef, score, threw, matched]
checkMatches(bs, start, sRef, sState) ==
    PopMatches(bs, Matches(bs, start), bs[start].color, sRef, sState)

\* Array.from(new Set(active colours)): first-appearance order
RECURSIVE Dedup(_, _)
Dedup(q, seen) ==
    IF q = << >> THEN << >>
    ELSE IF q[1] \in seen THEN Dedup(Tail(q), seen)
    ELSE <<q[1]>> \o Dedup(Tail(q), seen \cup {q[1]})

ActiveColorList(bs) ==
    LET act == SelectSeq(bs, LAMBDA b : b.active)
    IN  Dedup([i \in 1..Len(act) |-> act[i].color], {})

\* updateAvailableColors: the new value of the selectedColor state
updateAvailableColors(bs, selRef, selState) ==
    LET list == ActiveColorList(bs)
    IN  IF selRef \notin SeqToSet(list) /\ Len(list) > 0 THEN list[1] ELSE selState

----------------------------------------------------------------------------
(* Candidate targets (getAllReachableClusters, isPathClear) *)

\* a variant whose score comparator has no tie-break on the row
NotAfterScoreOnly(cmp, a, b) ==
    IF cmp = "y"
    THEN b.y - a.y <= 0
    ELSE b.size * b.pointsPerBubble - a.size * a.pointsPerBubble <= 0

\* the two comparators handed to Array.prototype.sort, as "cmp(a, b) <= 0":
\* (a, b) => b.y - a.y                         (getAllReachableClusters)
\* (a, b) => (scoreB - scoreA) || (a.row - b.row)   (getBestLocalTarget)
NotAfter(cmp, a, b) ==
    IF cmp = "y"
    THEN b.y - a.y <= 0
    ELSE LET d == b.size * b.pointsPerBubble - a.size * a.pointsPerBubble
         IN  IF d # 0 THEN d <= 0 ELSE a.row - b.row <= 0

\* Array.prototype.sort is stable: x goes after every element that does not
\* compare greater than it
RECURSIVE InsertSorted(_, _, _)
InsertSorted(x, sorted, cmp) ==
    IF sorted = << >> THEN <<x>>
    ELSE IF NotAfter(cmp, sorted[1], x)
         THEN <<sorted[1]>> \o InsertSorted(x, Tail(sorted), cmp)
         ELSE <<x>> \o sorted

\* a variant that leaves the array in the order it has
SortKeepsOrder(q, cmp) == q

RECURSIVE StableSort(_, _)
StableSort(q, cmp) ==
    IF q = << >> THEN << >>
    ELSE InsertSorted(q[Len(q)], StableSort(SubSeq(q, 1, Len(q) - 1), cmp), cmp)

MaxSteps == 4 * ((CanvasWidth + CanvasHeight) \div BUBBLE_RADIUS) + 4

\* Math.ceil(distance / (BUBBLE_RADIUS / 2)), distance = sqrt(dSq)
CeilSteps(dSq) ==
    CHOOSE n \in 0..MaxSteps :
        /\ n * n * BUBBLE_RADIUS * BUBBLE_RADIUS >= 4 * dSq
        /\ (n = 0 \/ (n - 1) * (n - 1) * BUBBLE_RADIUS * BUBBLE_RADIUS < 4 * dSq)

\* isPathClear(target): sample points anchor + (dx, dy) * i / steps, i in
\* 1 .. steps - 3; a point blocks when it is nearer than 1.8 radii to another
\* active bubble.  Both sides of the comparison are multiplied by
\* 25 * steps^2.
isPathClear(bs, target) ==
    LET dx == target.x - anchorPos.x
        dy == target.y - anchorPos.y
        steps == CeilSteps(dx * dx + dy * dy)
    IN  \A i \in 1..(steps - 3) :
          \A k \in 1..Len(bs) :
            LET b == bs[k]
                ex == steps * (anchorPos.x - b.x) + dx * i
                ey == steps * (anchorPos.y - b.y) + dy * i
            IN  (b.active /\ b.id # target.id)
                  => ~(25 * (ex * ex + ey * ey)
                         < 81 * BUBBLE_RADIUS * BUBBLE_RADIUS * steps * steps)

\* the inner while loop of getAllReachableClusters (lines 235-240)
RECURSIVE ClusterBfs(_, _, _, _, _)
ClusterBfs(activeBubbles, color, queue, visited, members) ==
    IF queue = << >> THEN [members |-> members, visited |-> visited]
    ELSE LET curr == queue[1]
             neighbors == SelectSeq(activeBubbles,
                 LAMBDA n : n.id \notin visited /\ n.color = color /\ isNeighbor(curr, n))
         IN  ClusterBfs(activeBubbles, color, Tail(queue) \o neighbors,
                        visited \cup IdsOf(neighbors), Append(members, curr))

\* xPct < 0.33 ? "Left" : xPct > 0.66 ? "Right" : "Center"
ZoneOf(x) ==
    IF 100 * x < 33 * CanvasWidth THEN "Left"
    ELSE IF 100 * x > 66 * CanvasWidth THEN "Right" ELSE "Center"

\* the loop over the active bubbles for one colour (lines 230-252);
\* st = [visited, out, threw]
RECURSIVE ClustersOfColor(_, _, _, _, _)
ClustersOfColor(bs, activeBubbles, color, k, st) ==
    IF k > Len(activeBubbles) \/ st.threw THEN st
    ELSE LET b == activeBubbles[k]
         IN  IF b.color # color \/ b.id \in st.visited
             THEN ClustersOfColor(bs, activeBubbles, color, k + 1, st)
             ELSE LET c == ClusterBfs(activeBubbles, color, <<b>>,
                                      st.visited \cup {b.id}, << >>)
                      sorted == StableSort(c.members, "y")
                      clear == SelectSeq(sorted, LAMBDA m : isPathClear(bs, m))
                  IN  IF clear = << >>
                      THEN ClustersOfColor(bs, activeBubbles, color, k + 1,
                                           [st EXCEPT !.visited = c.visited])
                      ELSE IF ConfigThrows(color)
                      THEN [st EXCEPT !.threw = TRUE]
                      ELSE ClustersOfColor(bs, activeBubbles, color, k + 1,
                             [st EXCEPT !.visited = c.visited,
                                        !.out = Append(@,
                                           [id |-> clear[1].id, color |-> color,
                                            size |-> Len(c.members),
                                            row |-> clear[1].row, col |-> clear[1].col,
                                            pointsPerBubble |-> ColorPoints(color),
                                            description |-> ZoneOf(clear[1].x)])])

RECURSIVE ClustersByColor(_, _, _, _)
ClustersByColor(bs, activeBubbles, colors, acc) ==
    IF colors = << >> \/ acc.threw THEN acc
    ELSE LET r == ClustersOfColor(bs, activeBubbles, colors[1], 1,
                                  [visited |-> {}, out |-> acc.out, threw |-> FALSE])
         IN  ClustersByColor(bs, activeBubbles, Tail(colors),
                             [out |-> r.out, threw |-> r.threw])

\* result: [out: the TargetCandidate list, threw: a COLOR_CONFIG lookup threw]
getAllReachableClusters(bs) ==
    LET activeBubbles == SelectSeq(bs, LAMBDA b : b.active)
    IN  ClustersByColor(bs, activeBubbles, ActiveColorList(bs),
                        [out |-> << >>, threw |-> FALSE])

----------------------------------------------------------------------------
(* JavaScript values of the advisor's JSON, and the coercions the service   *)
(* applies to them                                                         *)

Undef == [t |-> "undefined", n |-> 0, s |-> ""]
Null == [t |-> "null", n |-> 0, s |-> ""]
Num(k) == [t |-> "number", n |-> k, s |-> ""]
NaN == [t |-> "number", n |-> 0, s |-> "NaN"]
Str(x) == [t |-> "string", n |-> 0, s |-> x]
Bool(b) == [t |-> "boolean", n |-> IF b THEN 1 ELSE 0, s |-> ""]

IsNaN(v) == v.t = "number" /\ v.s = "NaN"

\* the numeric strings of the model and the numbers they denote
ParseNumeric(x) ==
    CASE x = "" -> Num(0)
      [] x = "0" -> Num(0)
      [] x = "1" -> Num(1)
      [] x = "2" -> Num(2)
      [] OTHER -> NaN

\* Number(v)
ToNumber(v) ==
    CASE v.t = "undefined" -> NaN
      [] v.t = "null" -> Num(0)
      [] v.t = "number" -> v
      [] v.t = "boolean" -> Num(v.n)
      [] v.t = "string" -> ParseNumeric(v.s)

\* the truthiness of v
Truthy(v) ==
    CASE v.t = "undefined" -> FALSE
      [] v.t = "null" -> FALSE
      [] v.t = "number" -> ~IsNaN(v) /\ v.n # 0
      [] v.t = "boolean" -> v.n = 1
      [] v.t = "string" -> v.s # ""

\* String.prototype.toLowerCase on the strings of the model
ToLowerCase(x) ==
    CASE x = "RED" -> "red"
      [] x = "Blue" -> "blue"
      [] x = "ORANGE" -> "orange"
      [] x = "Pink" -> "pink"
      [] OTHER -> x

\* String.prototype.toUpperCase on the strings of the model
ToUpperCase(x) ==
    CASE x = "red" -> "RED"
      [] x = "blue" -> "BLUE"
      [] x = "green" -> "GREEN"
      [] x = "yellow" -> "YELLOW"
      [] x = "purple" -> "PURPLE"
      [] x = "orange" -> "ORANGE"
      [] x = "pink" -> "PINK"
      [] OTHER -> x

\* a hint message: a fixed text, or the template
\* `Fallback: Select ${color} at Row ${row}` with its two values
Msg(text) == [tpl |-> text, color |-> "", row |-> 0]
FallbackMsg(color, row) == [tpl |-> "Fallback: Select % at Row %", color |-> color, row |-> row]

----------------------------------------------------------------------------
(* The advisor service: getStrategicHint *)

\* getBestLocalTarget(msg)
getBestLocalTarget(validTargets, msg) ==
    IF Len(validTargets) > 0
    THEN LET best == StableSort(validTargets, "score")[1]
         IN  [message |-> FallbackMsg(ToUpperCase(best.color), best.row),
              rationale |-> Str("Selected based on highest potential cluster score available locally."),
              targetRow |-> Num(best.row),
              targetCol |-> Num(best.col),
              recommendedColor |-> Str(best.color)]
    ELSE [message |-> Msg(msg),
          rationale |-> Str("No valid clusters found to target."),
          targetRow |-> Undef, targetCol |-> Undef, recommendedColor |-> Undef]

\* The outcome of the external call:
\*   kind "ctor":      new GoogleGenAI(...) throws (line 37, outside the try)
\*   kind "transport": generateContent rejects
\*   kind "text":      generateContent resolves; response.text is empty
\*                     (undefined or ""), or a text JSON.parse rejects, or a
\*                     text that denotes the JSON value json
\* A JSON value is null, a primitive (every property reads undefined), or
\* an object with the five properties (Undef when absent).
JsonObject(row, col, color, message, rationale) ==
    [t |-> "object", targetRow |-> row, targetCol |-> col, recommendedColor |-> color,
     message |-> message, rationale |-> rationale]
JsonEmptyObject == JsonObject(Undef, Undef, Undef, Undef, Undef)
JsonNull == [JsonEmptyObject EXCEPT !.t = "null"]
JsonPrimitive == [JsonEmptyObject EXCEPT !.t = "primitive"]

CtorThrows == [kind |-> "ctor", empty |-> FALSE, wellFormed |-> FALSE, json |-> JsonNull]
TransportError == [kind |-> "transport", empty |-> FALSE, wellFormed |-> FALSE, json |-> JsonNull]
EmptyText == [kind |-> "text", empty |-> TRUE, wellFormed |-> FALSE, json |-> JsonNull]
GarbageText == [kind |-> "text", empty |-> FALSE, wellFormed |-> FALSE, json |-> JsonNull]
JsonText(j) == [kind |-> "text", empty |-> FALSE, wellFormed |-> TRUE, json |-> j]

\* JSON.parse(response.text || "{}"): [threw, value]
JsonParse(outcome) ==
    IF outcome.empty THEN [threw |-> FALSE, value |-> JsonEmptyObject]
    ELSE IF outcome.wellFormed THEN [threw |-> FALSE, value |-> outcome.json]
    ELSE [threw |-> TRUE, value |-> JsonNull]

Reply(hint, error) == [rejected |-> FALSE, hint |-> hint, error |-> error]
Rejected == [rejected |-> TRUE, hint |-> getBestLocalTarget(<< >>, ""), error |-> ""]

\* line 129: !isNaN(r) && !isNaN(c) && json.recommendedColor
AcceptsResponse(r, c, json) == ~IsNaN(r) /\ ~IsNaN(c) /\ Truthy(json.recommendedColor)

\* result: [rejected, hint, error]; error is debug.error ("" when unset)
getStrategicHint(validTargets, outcome) ==
    IF outcome.kind = "ctor" THEN Rejected
    ELSE IF outcome.kind = "transport"
    THEN Reply(getBestLocalTarget(validTargets, "AI unreachable"), "API Error")
    ELSE LET parsed == JsonParse(outcome)
             json == parsed.value
         IN  IF parsed.threw \/ json.t = "null"
             THEN Reply(getBestLocalTarget(validTargets, "AI parse error"), "JSON Parse Error")
             ELSE LET r == ToNumber(json.targetRow)
                      c == ToNumber(json.targetCol)
                  IN  IF AcceptsResponse(r, c, json)
                      THEN IF json.recommendedColor.t # "string"
                           THEN Reply(getBestLocalTarget(validTargets, "AI parse error"),
                                      "JSON Parse Error")
                           ELSE Reply([message |-> IF Truthy(json.message)
                                                   THEN Msg(json.message.s)
                                                   ELSE Msg("Good shot available!"),
                                       rationale |-> json.rationale,
                                       targetRow |-> r,
                                       targetCol |-> c,
                                       recommendedColor |->
                                           Str(ToLowerCase(json.recommendedColor.s))],
                                      "")
                      ELSE Reply(getBestLocalTarget(validTargets, "AI coordination error"),
                                 "Invalid Coordinates")

----------------------------------------------------------------------------
(* Projectile physics and gesture handling (the body of onResults).        *)
(* The ball's position and velocity are in tenths of a pixel; bubbles and  *)
(* the aim marker are in pixels.                                           *)

SCALE == 10

Deci(p) == Pt(p.x * SCALE, p.y * SCALE)

anchorBall == Deci(anchorPos)

\* floor(sqrt(n)) by bisection on lo <= sqrt(n) < hi
RECURSIVE SqrtBetween(_, _, _)
SqrtBetween(n, lo, hi) ==
    IF hi - lo <= 1 THEN lo
    ELSE LET mid == (lo + hi) \div 2
         IN  IF mid * mid <= n THEN SqrtBetween(n, mid, hi) ELSE SqrtBetween(n, lo, mid)

ISqrt(n) == SqrtBetween(n, 0, 40000)

\* Math.ceil(sqrt(dSq) / unit)
CeilDiv(dSq, unit) ==
    LET q == ISqrt(dSq) \div unit
    IN  IF q * unit * q * unit >= dSq THEN q ELSE q + 1

\* a variant without the clamp
DragUnclamped(handPos) == handPos

\* lines 401-409: the ball follows the pinch point, no further from the
\* anchor than MAX_DRAG_DIST
DragClamp(handPos) ==
    LET dragDx == handPos.x - anchorBall.x
        dragDy == handPos.y - anchorBall.y
        dSq == dragDx * dragDx + dragDy * dragDy
        maxD == MAX_DRAG_DIST * SCALE
    IN  IF dSq > maxD * maxD
        THEN LET dist == ISqrt(dSq)
             IN  Pt(anchorBall.x + Quot(dragDx * maxD, dist),
                    anchorBall.y + Quot(dragDy * maxD, dist))
        ELSE handPos

\* lines 420-422: MIN_FORCE_MULT + (MAX_FORCE_MULT - MIN_FORCE_MULT) * power^2,
\* in thousandths (0.08 = 80, 0.22 = 220)
MIN_FORCE_MULT == 80
MAX_FORCE_MULT == 220
ForceMult(dSq) ==
    LET maxD == MAX_DRAG_DIST * SCALE
        capped == IF dSq > maxD * maxD THEN maxD * maxD ELSE dSq
    IN  MIN_FORCE_MULT + ((MAX_FORCE_MULT - MIN_FORCE_MULT) * (capped \div 100)) \div ((maxD * maxD) \div 100)

\* a variant that launches from every pull
LaunchAllowedAlways(dSq) == TRUE

\* The gesture branch, lines 396-432.  g = [ballPos, ballVel, isPinching,
\* isFlying, launched]; hand = [present, pos, pinchDist]
\* line 417: dist > 30
LaunchAllowed(dSq) == dSq > (MIN_LAUNCH_DIST * SCALE) * (MIN_LAUNCH_DIST * SCALE)

\* a variant whose release branch does not look at the lock
GestureLaunchesLocked(g, hand, isLocked) ==
    IF ~isLocked /\ hand.present /\ hand.pinchDist < PINCH_THRESHOLD /\ ~g.isFlying
    THEN IF g.isPinching \/ DistSq(hand.pos, g.ballPos)
                               < (CAPTURE_RADIUS * SCALE) * (CAPTURE_RADIUS * SCALE)
         THEN [g EXCEPT !.isPinching = TRUE, !.ballPos = DragClamp(hand.pos)]
         ELSE g
    ELSE IF g.isPinching /\ (~hand.present \/ hand.pinchDist >= PINCH_THRESHOLD \/ isLocked)
    THEN LET dx == anchorBall.x - g.ballPos.x
             dy == anchorBall.y - g.ballPos.y
             dSq == dx * dx + dy * dy
         IN  IF dSq > (MIN_LAUNCH_DIST * SCALE) * (MIN_LAUNCH_DIST * SCALE)
             THEN [g EXCEPT !.isPinching = FALSE, !.isFlying = TRUE, !.launched = TRUE,
                            !.ballVel = Pt(Quot(dx * ForceMult(dSq), 1000),
                                           Quot(dy * ForceMult(dSq), 1000))]
             ELSE [g EXCEPT !.isPinching = FALSE, !.ballPos = anchorBall]
    ELSE IF ~g.isFlying /\ ~g.isPinching
    THEN [g EXCEPT !.ballPos = Pt(@.x + Quot((anchorBall.x - @.x) * 15, 100),
                                  @.y + Quot((anchorBall.y - @.y) * 15, 100))]
    ELSE g

\* a variant whose first branch does not look at the flying flag
GestureGrabsInFlight(g, hand, isLocked) ==
    IF ~isLocked /\ hand.present /\ hand.pinchDist < PINCH_THRESHOLD
    THEN IF g.isPinching \/ DistSq(hand.pos, g.ballPos)
                               < (CAPTURE_RADIUS * SCALE) * (CAPTURE_RADIUS * SCALE)
         THEN [g EXCEPT !.isPinching = TRUE, !.ballPos = DragClamp(hand.pos)]
         ELSE g
    ELSE IF g.isPinching
    THEN LET dx == anchorBall.x - g.ballPos.x
             dy == anchorBall.y - g.ballPos.y
             dSq == dx * dx + dy * dy
         IN  IF ~isLocked /\ dSq > (MIN_LAUNCH_DIST * SCALE) * (MIN_LAUNCH_DIST * SCALE)
             THEN [g EXCEPT !.isPinching = FALSE, !.isFlying = TRUE, !.launched = TRUE,
                            !.ballVel = Pt(Quot(dx * ForceMult(dSq), 1000),
                                           Quot(dy * ForceMult(dSq), 1000))]
             ELSE [g EXCEPT !.isPinching = FALSE, !.ballPos = anchorBall]
    ELSE g

Gesture(g, hand, isLocked) ==
    IF ~isLocked /\ hand.present /\ hand.pinchDist < PINCH_THRESHOLD /\ ~g.isFlying
    THEN LET near == DistSq(hand.pos, g.ballPos)
                        < (CAPTURE_RADIUS * SCALE) * (CAPTURE_RADIUS * SCALE)
             pinching == g.isPinching \/ near
         IN  IF pinching
             THEN [g EXCEPT !.isPinching = TRUE, !.ballPos = DragClamp(hand.pos)]
             ELSE g
    ELSE IF g.isPinching /\ (~hand.present \/ hand.pinchDist >= PINCH_THRESHOLD \/ isLocked)
    THEN IF ~isLocked
         THEN LET dx == anchorBall.x - g.ballPos.x
                  dy == anchorBall.y - g.ballPos.y
                  dSq == dx * dx + dy * dy
              IN  IF LaunchAllowed(dSq)
                  THEN [g EXCEPT !.isPinching = FALSE, !.isFlying = TRUE, !.launched = TRUE,
                                 !.ballVel = Pt(Quot(dx * ForceMult(dSq), 1000),
                                                Quot(dy * ForceMult(dSq), 1000))]
                  ELSE [g EXCEPT !.isPinching = FALSE, !.ballPos = anchorBall]
         ELSE [g EXCEPT !.isPinching = FALSE, !.ballPos = anchorBall]
    ELSE IF ~g.isFlying /\ ~g.isPinching
    THEN [g EXCEPT !.ballPos = Pt(@.x + Quot((anchorBall.x - @.x) * 15, 100),
                                  @.y + Quot((anchorBall.y - @.y) * 15, 100))]
    ELSE g

\* line 451: the ball is nearer than 1.6 radii to an active bubble
HitsBubble(bs, pos) ==
    \E k \in 1..Len(bs) :
        /\ bs[k].active
        /\ DistSq(pos, Deci(bs[k])) < (16 * BUBBLE_RADIUS) * (16 * BUBBLE_RADIUS)

\* the sub-step loop, lines 442-456; f = [pos, vel, collision]
RECURSIVE SubSteps(_, _, _, _)
SubSteps(bs, f, i, steps) ==
    IF i >= steps THEN f
    ELSE LET lo == BUBBLE_RADIUS * SCALE
             hi == (CanvasWidth - BUBBLE_RADIUS) * SCALE
             nx == f.pos.x + Quot(f.vel.x, steps)
             ny == f.pos.y + Quot(f.vel.y, steps)
             bounced == nx < lo \/ nx > hi
             cx == IF nx < lo THEN lo ELSE IF nx > hi THEN hi ELSE nx
             vel == IF bounced THEN Pt(-f.vel.x, f.vel.y) ELSE f.vel
             moved == [f EXCEPT !.pos = Pt(cx, ny), !.vel = vel]
         IN  IF ny < lo \/ HitsBubble(bs, Pt(cx, ny))
             THEN [moved EXCEPT !.collision = TRUE]
             ELSE SubSteps(bs, moved, i + 1, steps)

\* FRICTION = 0.999
Friction(v) == Pt(Quot(v.x * 999, 1000), Quot(v.y * 999, 1000))

\* lines 440-457
Integrate(bs, pos, vel) ==
    LET steps == CeilDiv(vel.x * vel.x + vel.y * vel.y, (BUBBLE_RADIUS * SCALE) \div 2)
        f == SubSteps(bs, [pos |-> pos, vel |-> vel, collision |-> FALSE], 0, steps)
    IN  [f EXCEPT !.vel = Friction(@)]

Occupied(bs, r, c) == \E k \in 1..Len(bs) : bs[k].active /\ bs[k].row = r /\ bs[k].col = c

\* the scan for the nearest free slot, lines 460-469; best = [found, d, r,
\* c, x, y]; found = FALSE stands for bestD = Infinity
RECURSIVE SnapScan(_, _, _, _)
SnapScan(bs, pos, slots, best) ==
    IF slots = << >> THEN best
    ELSE LET r == slots[1][1]
             c == slots[1][2]
             p == getBubblePos(r, c, CanvasWidth)
             d == DistSq(pos, Deci(p))
         IN  IF ~Occupied(bs, r, c) /\ (~best.found \/ d < best.d)
             THEN SnapScan(bs, pos, Tail(slots),
                           [found |-> TRUE, d |-> d, r |-> r, c |-> c, x |-> p.x, y |-> p.y])
             ELSE SnapScan(bs, pos, Tail(slots), best)

SnapSlot(bs, pos) ==
    SnapScan(bs, pos, SlotSeq(SNAP_ROWS),
             [found |-> FALSE, d |-> 0, r |-> 0, c |-> 0, x |-> 0, y |-> 0])

\* line 470; Date.now() is stood for by the ordinal of the new bubble
BubbleAt(s, ordinal, color) ==
    [id |-> <<s.r, s.c, ordinal>>, row |-> s.r, col |-> s.c, x |-> s.x, y |-> s.y,
     color |-> color, active |-> TRUE]

NewBubble(bs, pos, color) == BubbleAt(SnapSlot(bs, pos), Len(bs) + 1, color)

----------------------------------------------------------------------------
(* State *)

VARIABLES
    bubbles,            \* bubbles.current
    scoreRef,           \* scoreRef.current
    score,              \* the score state (setScore)
    ballPos,            \* ballPos.current
    ballVel,            \* ballVel.current
    isPinching,         \* isPinching.current
    isFlying,           \* isFlying.current
    flightAge,          \* performance.now() - flightStartTime.current, while flying
    captureRequestRef,  \* captureRequestRef.current
    timerPending,       \* the 1000 ms timer of initGrid has not fired yet
    pendingAnalysis,    \* setTimeout(() => performAiAnalysis(ss), 0) calls not yet run
    inFlight,           \* getStrategicHint calls not yet settled: their validTargets
    isAiThinkingRef,    \* isAiThinkingRef.current
    isAiThinking,       \* the isAiThinking state
    aiHint,             \* the aiHint state
    aiRationale,        \* the aiRationale state
    aimTarget,          \* the aimTarget state
    aimTargetRef,       \* aimTargetRef.current
    selectedColor,      \* the selectedColor state
    selectedColorRef,   \* selectedColorRef.current
    aiRecommendedColor, \* the aiRecommendedColor state
    availableColors,    \* the availableColors state
    debugInfo,          \* debugInfo.error of the debugInfo state
    crashed,            \* an exception escaped onResults or the component's render
    shots,              \* launches so far (bounds the model)
    hintCall,           \* one call of getStrategicHint on its own: its arguments and result
    unit                \* one function of the program run on its own: its arguments and result

vars == <<bubbles, scoreRef, score, ballPos, ballVel, isPinching, isFlying, flightAge,
          captureRequestRef, timerPending, pendingAnalysis, inFlight, isAiThinkingRef,
          isAiThinking, aiHint, aiRationale, aimTarget, aimTargetRef, selectedColor,
          selectedColorRef, aiRecommendedColor, availableColors, debugInfo, crashed, shots,
          hintCall, unit>>

NoTarget == [set |-> FALSE, x |-> 0, y |-> 0]
Target(p) == [set |-> TRUE, x |-> p.x, y |-> p.y]
NoColor == "null"
NoDebug == "null"

\* React commits the state a handler has set, and runs the effects of lines
\* 82-84 that copy selectedColor, aimTarget and isAiThinking into their refs,
\* before the next handler runs: every action leaves each ref equal to its
\* state.

NoReply == [rejected |-> FALSE, hint |-> getBestLocalTarget(<< >>, ""), error |-> ""]
Call(targets, outcome) ==
    [made |-> TRUE, targets |-> targets, outcome |-> outcome, done |-> FALSE, reply |-> NoReply]
NoCall == [Call(<< >>, CtorThrows) EXCEPT !.made = FALSE]
NoUnit == [fn |-> "none"]

\* initGrid: every slot of the first INIT_ROWS rows holds a bubble of a
\* random colour with probability 0.9
InitColors == {COLOR_KEYS[i] : i \in 1..InitPalette}

InitBubble(slot, color) ==
    LET p == getBubblePos(slot[1], slot[2], CanvasWidth)
    IN  [id |-> <<slot[1], slot[2], 0>>, row |-> slot[1], col |-> slot[2],
         x |-> p.x, y |-> p.y, color |-> color, active |-> TRUE]

InitBoards ==
    LET slots == SlotSeq(INIT_ROWS)
        fills == [1..Len(slots) -> InitColors \cup {"empty"}]
    IN  {LET all == [i \in 1..Len(slots) |-> InitBubble(slots[i], f[i])]
         IN  SelectSeq(all, LAMBDA b : b.color # "empty") : f \in fills}

\* the state after construction and initGrid, given the board
InitIdle ==
    /\ scoreRef = 0
    /\ score = 0
    /\ ballPos = anchorBall
    /\ ballVel = Pt(0, 0)
    /\ isPinching = FALSE
    /\ isFlying = FALSE
    /\ flightAge = 0
    /\ captureRequestRef = FALSE
    /\ timerPending = TRUE
    /\ pendingAnalysis = 0
    /\ inFlight = << >>
    /\ isAiThinkingRef = FALSE
    /\ isAiThinking = FALSE
    /\ aiHint = Msg("Calibrating tactical vision...")
    /\ aiRationale = Null
    /\ aimTarget = NoTarget
    /\ aimTargetRef = NoTarget
    /\ selectedColor = updateAvailableColors(bubbles, "red", "red")
    /\ selectedColorRef = selectedColor
    /\ aiRecommendedColor = NoColor
    /\ availableColors = ActiveColorList(bubbles)
    /\ debugInfo = NoDebug
    /\ crashed = FALSE
    /\ shots = 0

InitGame == bubbles \in InitBoards /\ InitIdle

Init == InitGame /\ hintCall = NoCall /\ unit = NoUnit

----------------------------------------------------------------------------
(* The frame tick: onResults *)

NoHand == [present |-> FALSE, pos |-> Pt(0, 0), pinchDist |-> 100]
Hand(dx, dy, pinch) ==
    [present |-> TRUE, pos |-> Pt(anchorBall.x + dx * SCALE, anchorBall.y + dy * SCALE),
     pinchDist |-> pinch]

\* the hand samples of the model: offsets from the anchor in pixels, and the
\* pinch distance in hundredths
HandSamples ==
    {NoHand,
     Hand(0, 20, 2), Hand(0, 200, 2),
     Hand(0, 100, PINCH_THRESHOLD)}

\* lines 480-507: drawing looks up COLOR_CONFIG for every active bubble and
\* for the selected colour
RenderThrows(bs, selRef) ==
    \/ \E k \in 1..Len(bs) : bs[k].active /\ ConfigThrows(bs[k].color)
    \/ ConfigThrows(selRef)

\* lines 458-476, after checkMatches returned m (or threw)
AfterMatch(t, f, m) ==
    IF m.threw
    THEN [t EXCEPT !.isFlying = FALSE, !.ballPos = f.pos, !.ballVel = f.vel,
                   !.bubbles = m.bubbles, !.scoreRef = m.scoreRef,
                   !.score = m.score, !.threw = TRUE]
    ELSE [t EXCEPT !.isFlying = FALSE, !.ballVel = f.vel,
                   !.bubbles = m.bubbles, !.scoreRef = m.scoreRef,
                   !.score = m.score,
                   !.availableColors = ActiveColorList(m.bubbles),
                   !.selectedColor = updateAvailableColors(m.bubbles, t.selRef, @),
                   !.ballPos = anchorBall,
                   !.capture = TRUE]

\* lines 470-472: the new bubble is pushed and checked
Collide(t, f, store) ==
    AfterMatch(t, f, checkMatches(store, Len(store), t.scoreRef, t.score))

\* lines 457-477, after the sub-step loop returned f
AfterIntegrate(t, f) ==
    IF ~f.collision
    THEN [t EXCEPT !.ballPos = f.pos, !.ballVel = f.vel]
    ELSE Collide(t, f, Append(t.bubbles, NewBubble(t.bubbles, f.pos, t.selRef)))

\* a variant that neither moves the projectile nor ends the flight, and
\* restarts the flight clock
FlightStepStalls(t) == [t EXCEPT !.flightAge = IF @ > TickMs THEN 0 ELSE @]

\* a variant whose timeout branch requests a capture
FlightStepTimeoutCaptures(t) ==
    IF ~t.isFlying THEN t
    ELSE IF t.flightAge > FLIGHT_TIMEOUT_MS
    THEN [t EXCEPT !.isFlying = FALSE, !.ballPos = anchorBall, !.capture = TRUE]
    ELSE AfterIntegrate(t, Integrate(t.bubbles, t.ballPos, t.ballVel))

\* lines 434-478.  t = the state the rest of the tick reads and writes
FlightStep(t) ==
    IF ~t.isFlying THEN t
    ELSE IF t.flightAge > FLIGHT_TIMEOUT_MS
    THEN [t EXCEPT !.isFlying = FALSE, !.ballPos = anchorBall]
    ELSE AfterIntegrate(t, Integrate(t.bubbles, t.ballPos, t.ballVel))

\* the state the flight branch starts from, after the gesture branch
AfterGesture(g) ==
    [bubbles |-> bubbles, scoreRef |-> scoreRef, score |-> score,
     ballPos |-> g.ballPos, ballVel |-> g.ballVel, isFlying |-> g.isFlying,
     flightAge |-> IF g.launched THEN 0
                   ELSE IF isFlying THEN flightAge + TickMs ELSE 0,
     availableColors |-> availableColors, selectedColor |-> selectedColor,
     selRef |-> selectedColorRef,
     capture |-> captureRequestRef, threw |-> FALSE]

\* lines 480-537: drawing, then the capture request; threw = an exception
\* escapes the tick
TickEnd(g, t, threw) ==
    /\ bubbles' = t.bubbles
    /\ scoreRef' = t.scoreRef
    /\ score' = t.score
    /\ ballPos' = t.ballPos
    /\ ballVel' = t.ballVel
    /\ isPinching' = g.isPinching
    /\ isFlying' = t.isFlying
    /\ flightAge' = IF t.isFlying THEN t.flightAge ELSE 0
    /\ availableColors' = t.availableColors
    /\ selectedColor' = t.selectedColor
    /\ selectedColorRef' = t.selectedColor
    /\ crashed' = threw
    /\ captureRequestRef' = IF threw THEN t.capture ELSE FALSE
    /\ pendingAnalysis' = IF ~threw /\ t.capture THEN pendingAnalysis + 1
                          ELSE pendingAnalysis

TickFlight(g, t) == TickEnd(g, t, t.threw \/ RenderThrows(t.bubbles, selectedColorRef))

TickGesture(g) ==
    /\ g.launched => shots < MaxShots
    /\ shots' = IF g.launched THEN shots + 1 ELSE shots
    /\ TickFlight(g, FlightStep(AfterGesture(g)))

\* onResults.  The zero-delay timer a tick sets runs before the next frame
\* arrives; after an exception escaped a tick the frame loop is not re-armed
\* (onFrame awaits hands.send, line 545).
Tick(hand) ==
    /\ ~crashed
    /\ pendingAnalysis = 0
    /\ TickGesture(Gesture([ballPos |-> ballPos, ballVel |-> ballVel,
                            isPinching |-> isPinching, isFlying |-> isFlying,
                            launched |-> FALSE],
                           hand, isAiThinkingRef))
    /\ UNCHANGED <<timerPending, inFlight, isAiThinkingRef, isAiThinking, aiHint, aiRationale,
                   aimTarget, aimTargetRef, aiRecommendedColor, debugInfo, hintCall, unit>>

\* the timer of initGrid, line 120.  The 1000 ms are not measured against the
\* frame ticks: the timer fires between any two of them.
CaptureTimer ==
    /\ timerPending
    /\ timerPending' = FALSE
    /\ captureRequestRef' = TRUE
    /\ UNCHANGED <<bubbles, scoreRef, score, ballPos, ballVel, isPinching, isFlying, flightAge,
                   pendingAnalysis, inFlight, isAiThinkingRef, isAiThinking, aiHint,
                   aiRationale, aimTarget, aimTargetRef, selectedColor, selectedColorRef,
                   aiRecommendedColor, availableColors, debugInfo, crashed, shots,
                   hintCall, unit>>

----------------------------------------------------------------------------
(* The advisory cycle: performAiAnalysis *)

\* lines 257-267: the timer callback scheduled by the tick runs.  When
\* getAllReachableClusters throws, performAiAnalysis ends before the call to
\* getStrategicHint and nothing clears the flag.
StartAnalysis ==
    /\ pendingAnalysis > 0
    /\ pendingAnalysis' = pendingAnalysis - 1
    /\ isAiThinkingRef' = TRUE
    /\ isAiThinking' = TRUE
    /\ aiHint' = Msg("Analyzing tactical options...")
    /\ aiRationale' = Null
    /\ LET allClusters == getAllReachableClusters(bubbles)
       IN  inFlight' = IF allClusters.threw THEN inFlight
                       ELSE Append(inFlight, allClusters.out)
    /\ UNCHANGED <<bubbles, scoreRef, score, ballPos, ballVel, isPinching, isFlying, flightAge,
                   captureRequestRef, timerPending, aimTarget, aimTargetRef, selectedColor,
                   selectedColorRef, aiRecommendedColor, availableColors, debugInfo, crashed, shots,
                   hintCall, unit>>

RemoveAt(q, i) == SubSeq(q, 1, i - 1) \o SubSeq(q, i + 1, Len(q))

\* the outcomes of the external call the model draws from
Outcomes ==
    {CtorThrows, TransportError,
     JsonText(JsonObject(Num(1), Num(0), Str("RED"), Str("Aim here"), Str("Biggest cluster"))),
     JsonText(JsonObject(Num(0), Num(0), Str("Pink"), Undef, Undef)),
     JsonText(JsonObject(Num(99), Num(-1), Str("Blue"), Undef, Undef))}

\* lines 281-284: the .catch handler; the new value of the thinking flag
SettleRejected(thinking) == FALSE

\* line 552: the component's render looks up COLOR_CONFIG for the recommended
\* colour; an exception there unmounts the component and stops the frame loop
ComponentRenderThrows(recommended) ==
    recommended # NoColor /\ ConfigThrows(recommended)

\* a variant whose settlement also takes the projectile out of its flight
AdvisorSettlesAndResets(i, outcome) ==
    /\ i \in 1..Len(inFlight)
    /\ inFlight' = RemoveAt(inFlight, i)
    /\ isAiThinking' = FALSE
    /\ isAiThinkingRef' = FALSE
    /\ isFlying' = FALSE
    /\ flightAge' = 0
    /\ ballPos' = anchorBall
    /\ UNCHANGED <<bubbles, scoreRef, score, ballVel, isPinching, captureRequestRef,
                   timerPending, pendingAnalysis, aiHint, aiRationale, aimTarget, aimTargetRef,
                   selectedColor, selectedColorRef, aiRecommendedColor, availableColors,
                   debugInfo, crashed, shots, hintCall, unit>>

\* lines 267-284: request i settles with the given outcome
AdvisorSettles(i, outcome) ==
    /\ i \in 1..Len(inFlight)
    /\ inFlight' = RemoveAt(inFlight, i)
    /\ LET aiResponse == getStrategicHint(inFlight[i], outcome)
           hint == aiResponse.hint
           hasTarget == hint.targetRow.t = "number" /\ hint.targetCol.t = "number"
       IN  IF aiResponse.rejected
           THEN /\ isAiThinking' = SettleRejected(isAiThinking)
                /\ isAiThinkingRef' = SettleRejected(isAiThinkingRef)
                /\ UNCHANGED <<debugInfo, aiHint, aiRationale, aiRecommendedColor,
                               selectedColor, selectedColorRef, aimTarget, aimTargetRef>>
           ELSE /\ debugInfo' = aiResponse.error
                /\ aiHint' = hint.message
                /\ aiRationale' = IF Truthy(hint.rationale) THEN hint.rationale ELSE Null
                /\ aiRecommendedColor' =
                       IF hasTarget /\ Truthy(hint.recommendedColor)
                       THEN hint.recommendedColor.s ELSE aiRecommendedColor
                /\ selectedColor' =
                       IF hasTarget /\ Truthy(hint.recommendedColor)
                       THEN hint.recommendedColor.s ELSE selectedColor
                /\ selectedColorRef' = selectedColor'
                /\ aimTarget' =
                       IF hasTarget
                       THEN Target(getBubblePos(hint.targetRow.n, hint.targetCol.n, CanvasWidth))
                       ELSE aimTarget
                /\ aimTargetRef' = aimTarget'
                /\ isAiThinkingRef' = FALSE
                /\ isAiThinking' = FALSE
    /\ crashed' = (crashed \/ ComponentRenderThrows(aiRecommendedColor'))
    /\ UNCHANGED <<bubbles, scoreRef, score, ballPos, ballVel, isPinching, isFlying, flightAge,
                   captureRequestRef, timerPending, pendingAnalysis, availableColors, shots,
                   hintCall, unit>>

\* line 593: a click on the button of an available colour
ClickColor(color) ==
    /\ color \in SeqToSet(availableColors)
    /\ color \in ValidColors
    /\ color # selectedColor
    /\ selectedColor' = color
    /\ selectedColorRef' = color
    /\ UNCHANGED <<bubbles, scoreRef, score, ballPos, ballVel, isPinching, isFlying, flightAge,
                   captureRequestRef, timerPending, pendingAnalysis, inFlight, isAiThinkingRef,
                   isAiThinking, aiHint, aiRationale, aimTarget, aimTargetRef,
                   aiRecommendedColor, availableColors, debugInfo, crashed, shots,
                   hintCall, unit>>

Next ==
    \/ \E hand \in HandSamples : Tick(hand)
    \/ CaptureTimer
    \/ StartAnalysis
    \/ \E i \in 1..Len(inFlight), outcome \in Outcomes : AdvisorSettles(i, outcome)
    \/ \E color \in ValidColors : ClickColor(color)

Spec == Init /\ [][Next]_vars

----------------------------------------------------------------------------
(* The game with frames that keep arriving.  The camera loop sends a frame  *)
(* after each tick (line 545), a timer that is set runs, and no request is *)
(* required ever to settle.  Weak fairness of the tick and of the timer    *)
(* callback is written with their enabling conditions spelt out.           *)

FrameArrives == \E hand \in HandSamples : Tick(hand)

\* a tick that finds the projectile flying is enabled when no exception has
\* stopped the frame loop and no timer callback is due, and it changes the state
FrameDue == isFlying /\ ~crashed /\ pendingAnalysis = 0

FramesKeepArriving == []<>(~FrameDue) \/ []<><<FrameArrives>>_vars

\* the callback of the zero-delay timer is enabled when one is set
TimerCallbackRuns == []<>(pendingAnalysis = 0) \/ []<><<StartAnalysis>>_vars

SpecLive ==
    /\ Init /\ [][Next]_vars
    /\ WF_vars(CaptureTimer)
    /\ FramesKeepArriving
    /\ TimerCallbackRuns

----------------------------------------------------------------------------
(* getStrategicHint on its own: one call, with the candidate list of an    *)
(* initial board and an outcome of the external call drawn from            *)
(* HintOutcomes                                                            *)

\* the values a coordinate property of the response takes (Undef = absent)
CoordValues == {Undef, Null, Num(1), Str("abc"), Str("1"), Bool(TRUE)}

\* the values the recommendedColor property takes
ColourValues == {Undef, Str("RED"), Str("blue"), Num(5)}

HintOutcomes ==
    {CtorThrows, TransportError, EmptyText, GarbageText,
     JsonText(JsonNull), JsonText(JsonPrimitive)}
    \cup {JsonText(JsonObject(r, c, col, Undef, Undef)) :
              r \in CoordValues, c \in CoordValues, col \in ColourValues}

InitHint ==
    /\ InitGame
    /\ hintCall \in {Call(getAllReachableClusters(bubbles).out, o) : o \in HintOutcomes}
    /\ unit = NoUnit

HintReturns ==
    /\ hintCall.made
    /\ ~hintCall.done
    /\ hintCall' = [hintCall EXCEPT
                       !.done = TRUE,
                       !.reply = getStrategicHint(hintCall.targets, hintCall.outcome)]
    /\ UNCHANGED <<bubbles, scoreRef, score, ballPos, ballVel, isPinching, isFlying, flightAge,
                   captureRequestRef, timerPending, pendingAnalysis, inFlight, isAiThinkingRef,
                   isAiThinking, aiHint, aiRationale, aimTarget, aimTargetRef, selectedColor,
                   selectedColorRef, aiRecommendedColor, availableColors, debugInfo, crashed,
                   shots, unit>>

NextHint == HintReturns

SpecHint == InitHint /\ [][NextHint]_vars

----------------------------------------------------------------------------
(* dropFloatingBubbles on its own: one board of DropRows rows, swept twice *)

\* rows of the boards dropFloatingBubbles is run on
DropRows == 5

\* every slot holds a bubble: an active one of one of the first InitPalette
\* colours, or one that a match has popped
DropBoards ==
    LET slots == SlotSeq(DropRows)
        fills == [1..Len(slots) -> InitColors \cup {"popped"}]
    IN  {[i \in 1..Len(slots) |->
             IF f[i] = "popped"
             THEN [InitBubble(slots[i], COLOR_KEYS[1]) EXCEPT !.active = FALSE]
             ELSE InitBubble(slots[i], f[i])] : f \in fills}

DropUnit(board, runs) == [fn |-> "dropFloatingBubbles", before |-> board, runs |-> runs]

InitDrop ==
    /\ bubbles \in DropBoards
    /\ InitIdle
    /\ hintCall = NoCall
    /\ unit = DropUnit(bubbles, 0)

\* one call of dropFloatingBubbles() on bubbles.current
DropRuns ==
    /\ unit.runs < 2
    /\ LET d == dropFloatingBubbles(bubbles, scoreRef, score)
       IN  /\ bubbles' = d.bubbles
           /\ scoreRef' = d.scoreRef
           /\ score' = d.score
           /\ crashed' = (crashed \/ d.threw)
    /\ unit' = [unit EXCEPT !.runs = @ + 1]
    /\ UNCHANGED <<ballPos, ballVel, isPinching, isFlying, flightAge, captureRequestRef,
                   timerPending, pendingAnalysis, inFlight, isAiThinkingRef, isAiThinking,
                   aiHint, aiRationale, aimTarget, aimTargetRef, selectedColor,
                   selectedColorRef, aiRecommendedColor, availableColors, debugInfo, shots,
                   hintCall>>

NextDrop == DropRuns

SpecDrop == InitDrop /\ [][NextDrop]_vars

----------------------------------------------------------------------------
(* isNeighbor on its own: a pair of grid positions, compared both ways *)

\* rows and columns of the positions isNeighbor is run on
NeighborRows == 4
NeighborCols == 3

GridPositions == [row : 0..(NeighborRows - 1), col : 0..(NeighborCols - 1)]

NeighborUnit(a, b) ==
    [fn |-> "isNeighbor", a |-> a, b |-> b, done |-> FALSE, ab |-> FALSE, ba |-> FALSE]

InitNeighbor ==
    /\ bubbles = << >>
    /\ InitIdle
    /\ hintCall = NoCall
    /\ unit \in {NeighborUnit(a, b) : a \in GridPositions, b \in GridPositions}

\* isNeighbor(a, b) and isNeighbor(b, a)
NeighborRuns ==
    /\ ~unit.done
    /\ unit' = [unit EXCEPT !.done = TRUE,
                            !.ab = isNeighbor(unit.a, unit.b),
                            !.ba = isNeighbor(unit.b, unit.a)]
    /\ UNCHANGED <<bubbles, scoreRef, score, ballPos, ballVel, isPinching, isFlying, flightAge,
                   captureRequestRef, timerPending, pendingAnalysis, inFlight, isAiThinkingRef,
                   isAiThinking, aiHint, aiRationale, aimTarget, aimTargetRef, selectedColor,
                   selectedColorRef, aiRecommendedColor, availableColors, debugInfo, crashed,
                   shots, hintCall>>

NextNeighbor == NeighborRuns

SpecNeighbor == InitNeighbor /\ [][NextNeighbor]_vars

----------------------------------------------------------------------------
(* getBestLocalTarget on its own: one candidate list of at most MaxTargets *)
(* clusters                                                                *)

\* longest candidate list getBestLocalTarget is run on
MaxTargets == 3

\* a candidate as getAllReachableClusters reports it
Candidate(row, col, color, size) ==
    [id |-> <<row, col, 0>>, color |-> color, size |-> size, row |-> row, col |-> col,
     pointsPerBubble |-> ColorPoints(color), description |-> "Center"]

\* candidates with equal and with different size * pointsPerBubble, in
\* different rows
CandidatePool ==
    {Candidate(0, 0, "red", 3), Candidate(1, 0, "blue", 2), Candidate(2, 1, "red", 3),
     Candidate(0, 1, "blue", 1), Candidate(2, 0, "orange", 1)}

RECURSIVE ListsUpTo(_, _)
ListsUpTo(pool, n) ==
    IF n = 0 THEN {<< >>}
    ELSE LET shorter == ListsUpTo(pool, n - 1)
         IN  shorter \cup {Append(q, c) : q \in shorter, c \in pool}

TargetUnit(targets) ==
    [fn |-> "getBestLocalTarget", targets |-> targets, done |-> FALSE,
     hint |-> getBestLocalTarget(<< >>, "")]

InitTargets ==
    /\ bubbles = << >>
    /\ InitIdle
    /\ hintCall = NoCall
    /\ unit \in {TargetUnit(q) : q \in ListsUpTo(CandidatePool, MaxTargets)}

\* getBestLocalTarget("AI unreachable") over validTargets
TargetRuns ==
    /\ ~unit.done
    /\ unit' = [unit EXCEPT !.done = TRUE,
                            !.hint = getBestLocalTarget(unit.targets, "AI unreachable")]
    /\ UNCHANGED <<bubbles, scoreRef, score, ballPos, ballVel, isPinching, isFlying, flightAge,
                   captureRequestRef, timerPending, pendingAnalysis, inFlight, isAiThinkingRef,
                   isAiThinking, aiHint, aiRationale, aimTarget, aimTargetRef, selectedColor,
                   selectedColorRef, aiRecommendedColor, availableColors, debugInfo, crashed,
                   shots, hintCall>>

NextTargets == TargetRuns

SpecTargets == InitTargets /\ [][NextTargets]_vars

----------------------------------------------------------------------------
(* The gesture branch on its own: one tick of a pinch that holds the       *)
(* projectile, with the pinch point at one of DragOffsets from the anchor, *)
(* and the tick after, in which the pinch is over                          *)

\* directions of the pinch point from the anchor, as <<dx, dy, length>> with
\* an integer length (the clamped point then has integer coordinates), and
\* its distances from the anchor in pixels, below, at and beyond MAX_DRAG_DIST
DragDirections ==
    {<<1, 0, 1>>, <<-1, 0, 1>>, <<0, 1, 1>>, <<0, -1, 1>>,
     <<3, 4, 5>>, <<-3, 4, 5>>, <<3, -4, 5>>, <<-3, -4, 5>>,
     <<4, 3, 5>>, <<-4, 3, 5>>, <<4, -3, 5>>, <<-4, -3, 5>>}

DragDistances ==
    {MIN_LAUNCH_DIST - 1, MIN_LAUNCH_DIST, MIN_LAUNCH_DIST + 1, 40, 100,
     MAX_DRAG_DIST - 1, MAX_DRAG_DIST, MAX_DRAG_DIST + 1, 250, 2 * MAX_DRAG_DIST}

\* the pinch point at distance dist (pixels) in direction dir, in the unit
\* of the projectile's position
DragPoint(dir, dist) ==
    Pt(anchorBall.x + (dir[1] * dist * SCALE) \div dir[3],
       anchorBall.y + (dir[2] * dist * SCALE) \div dir[3])

DragOffsets == {DragPoint(dir, dist) : dir \in DragDirections, dist \in DragDistances}

\* the projectile is held, at the point of the previous tick
HeldBall ==
    [ballPos |-> Pt(anchorBall.x, anchorBall.y + 20 * SCALE), ballVel |-> Pt(0, 0),
     isPinching |-> TRUE, isFlying |-> FALSE, launched |-> FALSE]

DragUnit(pos) ==
    [fn |-> "gesture", hand |-> [present |-> TRUE, pos |-> pos, pinchDist |-> 2],
     done |-> FALSE, g |-> HeldBall, released |-> FALSE, after |-> HeldBall]

InitDrag ==
    /\ bubbles = << >>
    /\ InitIdle
    /\ hintCall = NoCall
    /\ unit \in {DragUnit(pos) : pos \in DragOffsets}

\* lines 396-410 of one tick
DragRuns ==
    /\ ~unit.done
    /\ unit' = [unit EXCEPT !.done = TRUE,
                            !.g = Gesture(unit.g, unit.hand, isAiThinkingRef)]
    /\ UNCHANGED <<bubbles, scoreRef, score, ballPos, ballVel, isPinching, isFlying, flightAge,
                   captureRequestRef, timerPending, pendingAnalysis, inFlight, isAiThinkingRef,
                   isAiThinking, aiHint, aiRationale, aimTarget, aimTargetRef, selectedColor,
                   selectedColorRef, aiRecommendedColor, availableColors, debugInfo, crashed,
                   shots, hintCall>>

\* the hand of the tick after: lost, or still there with the pinch open
ReleaseHands(pos) == {NoHand, [present |-> TRUE, pos |-> pos, pinchDist |-> PINCH_THRESHOLD]}

\* lines 396-428 of the next tick, in which the pinch is over
ReleaseRuns ==
    /\ unit.done
    /\ ~unit.released
    /\ \E hand \in ReleaseHands(unit.hand.pos) :
           unit' = [unit EXCEPT !.released = TRUE,
                                !.after = Gesture(unit.g, hand, isAiThinkingRef)]
    /\ UNCHANGED <<bubbles, scoreRef, score, ballPos, ballVel, isPinching, isFlying, flightAge,
                   captureRequestRef, timerPending, pendingAnalysis, inFlight, isAiThinkingRef,
                   isAiThinking, aiHint, aiRationale, aimTarget, aimTargetRef, selectedColor,
                   selectedColorRef, aiRecommendedColor, availableColors, debugInfo, crashed,
                   shots, hintCall>>

NextDrag == DragRuns \/ ReleaseRuns

SpecDrag == InitDrag /\ [][NextDrag]_vars

----------------------------------------------------------------------------
(* getAllReachableClusters on its own: one board of ClusterRows rows of a  *)
(* grid of ClusterCols columns that the canvas centres on the anchor (the  *)
(* xOffset of getBubblePos), with bubbles in its left half                 *)

\* rows and columns of the grid getAllReachableClusters is run on
ClusterRows == 3
ClusterCols == 6

\* the centre of slot (row, col) of the grid of ClusterCols columns
ClusterPos(row, col) ==
    LET p == getBubblePos(row, col, CanvasWidth)
    IN  Pt(p.x - (ClusterCols - GRID_COLS) * BUBBLE_RADIUS, p.y)

ClusterBubble(slot, color) ==
    [id |-> <<slot[1], slot[2], 0>>, row |-> slot[1], col |-> slot[2],
     x |-> ClusterPos(slot[1], slot[2]).x, y |-> ClusterPos(slot[1], slot[2]).y,
     color |-> color, active |-> TRUE]

\* the slots of the left half, row by row
ClusterSlots ==
    LET cols == [c \in 1..(ClusterCols \div 2) |-> c - 1]
        rows == [r \in 1..ClusterRows |-> [c \in 1..Len(cols) |-> <<r - 1, cols[c]>>]]
    IN  [i \in 1..(ClusterRows * Len(cols)) |->
            rows[((i - 1) \div Len(cols)) + 1][((i - 1) % Len(cols)) + 1]]

\* every slot is empty or holds an active bubble of one of the first
\* InitPalette colours
ClusterBoards ==
    LET fills == [1..Len(ClusterSlots) -> InitColors \cup {"empty"}]
    IN  {LET all == [i \in 1..Len(ClusterSlots) |-> ClusterBubble(ClusterSlots[i], f[i])]
         IN  SelectSeq(all, LAMBDA b : b.color # "empty") : f \in fills}

ClusterUnit == [fn |-> "getAllReachableClusters", done |-> FALSE, out |-> << >>, threw |-> FALSE]

InitClusters ==
    /\ bubbles \in ClusterBoards
    /\ InitIdle
    /\ hintCall = NoCall
    /\ unit = ClusterUnit

\* getAllReachableClusters() over bubbles.current
ClustersRun ==
    /\ ~unit.done
    /\ unit' = [unit EXCEPT !.done = TRUE,
                            !.out = getAllReachableClusters(bubbles).out,
                            !.threw = getAllReachableClusters(bubbles).threw]
    /\ UNCHANGED <<bubbles, scoreRef, score, ballPos, ballVel, isPinching, isFlying, flightAge,
                   captureRequestRef, timerPending, pendingAnalysis, inFlight, isAiThinkingRef,
                   isAiThinking, aiHint, aiRationale, aimTarget, aimTargetRef, selectedColor,
                   selectedColorRef, aiRecommendedColor, availableColors, debugInfo, crashed,
                   shots, hintCall>>

NextClusters == ClustersRun

SpecClusters == InitClusters /\ [][NextClusters]_vars

----------------------------------------------------------------------------
(* The advisory cycle: one request at a time *)

\* C1: at most one advisory request is in flight at any time; the code has no
\* guard in performAiAnalysis, so the request of the initial capture timer and
\* the request of a collision can overlap.
C1_AtMostOneRequestInFlight == Len(inFlight) <= 1

\* C2: while at least one advisory request is outstanding, no tick starts a
\* pinch (RESTING to AIMING) and no tick launches the projectile (AIMING to
\* FLYING).
C2_NoAimingWhileOutstanding ==
    [][inFlight # << >> =>
          /\ ~(~isPinching /\ isPinching')
          /\ ~(~isFlying /\ isFlying')]_vars

----------------------------------------------------------------------------
(* The board: connectivity, slots, matches and the score *)

\* adjacency of two slots read off the geometry: the centres of two distinct
\* slots are at most one bubble diameter apart
Adjacent(a, b) ==
    LET d == DistSq(getBubblePos(a.row, a.col, CanvasWidth),
                    getBubblePos(b.row, b.col, CanvasWidth))
    IN  d > 0 /\ d <= (2 * BUBBLE_RADIUS) * (2 * BUBBLE_RADIUS)

\* the least set of store indices that contains seed and every bubble of
\* pool adjacent to a member
RECURSIVE Closure(_, _, _)
Closure(bs, pool, seed) ==
    LET more == {k \in pool \ seed : \E j \in seed : Adjacent(bs[j], bs[k])}
    IN  IF more = {} THEN seed ELSE Closure(bs, pool, seed \cup more)

ActiveIdx(bs) == {k \in 1..Len(bs) : bs[k].active}

\* the active bubbles with a path of adjacent active bubbles to row 0
Anchored(bs) == Closure(bs, ActiveIdx(bs), {k \in ActiveIdx(bs) : bs[k].row = 0})

NoFloaters(bs) == ActiveIdx(bs) \subseteq Anchored(bs)

\* the step deactivates a bubble (one of the store, or the one it adds)
Deactivates ==
    \E k \in 1..Len(bubbles') :
        ~bubbles'[k].active /\ (k > Len(bubbles) \/ bubbles[k].active)

\* C3: connectivity closure.  A step that deactivates a bubble (a pop with
\* its floating-bubble removal) leaves every active bubble with a path of
\* adjacent active bubbles to an active bubble of row 0.
C3_ConnectivityClosure == [][Deactivates => NoFloaters(bubbles')]_vars

\* an inactive bubble with fewer than MIN_MATCH inactive bubbles of its colour
\* was not popped by a match: it was dropped as a floater
C3_FloaterDropped ==
    /\ \E k \in 1..Len(bubbles) :
          /\ ~bubbles[k].active
          /\ Cardinality({j \in 1..Len(bubbles) :
                             ~bubbles[j].active /\ bubbles[j].color = bubbles[k].color})
                 < MIN_MATCH
    /\ NoFloaters(bubbles)

\* C4: no two active bubbles have the same (row, col) slot.
C4_ActiveSlotsUnique ==
    \A i, j \in ActiveIdx(bubbles) :
        i # j => <<bubbles[i].row, bubbles[i].col>> # <<bubbles[j].row, bubbles[j].col>>

\* the store as checkMatches finds it in a collision step: the old store
\* with the new bubble pushed
StoreAtCollision ==
    Append(bubbles, [bubbles'[Len(bubbles')] EXCEPT !.active = TRUE])

\* the maximal same-colour connected set of active bubbles around bubble k
SameColourSet(bs, k) ==
    Closure(bs, {j \in ActiveIdx(bs) : bs[j].color = bs[k].color}, {k})

\* C5: match threshold.  In a collision step, when the same-colour connected
\* set of the new bubble has size 1 or 2, no bubble is deactivated and the
\* score is unchanged; when it has size 3 or more, every member is
\* deactivated and the score strictly increases.
C5_MatchThreshold ==
    [][Len(bubbles') = Len(bubbles) + 1 =>
          IF Cardinality(SameColourSet(StoreAtCollision, Len(bubbles'))) < MIN_MATCH
          THEN bubbles' = StoreAtCollision /\ score' = score /\ scoreRef' = scoreRef
          ELSE /\ \A k \in SameColourSet(StoreAtCollision, Len(bubbles')) :
                     ~bubbles'[k].active
               /\ score' > score]_vars

\* the bubble of the latest shot has been popped by its match
C5_ShotPopped ==
    /\ Len(bubbles) > 0
    /\ bubbles[Len(bubbles)].id[3] > 0
    /\ ~bubbles[Len(bubbles)].active

\* C6: the score never decreases, and it changes only in a step in which at
\* least one bubble is deactivated.
C6_ScoreMonotone ==
    [][score' >= score /\ (score' # score => Deactivates)]_vars

C6_Scored == score > 0 /\ score = scoreRef

----------------------------------------------------------------------------
(* The advisory cycle: outcomes of the external call *)

\* C7: every advisory cycle ends with the thinking flag cleared whatever the
\* outcome of the external call, and no outcome lets an exception escape:
\* a step in which a request settles leaves the flag clear and crashes
\* nothing.
C7_SettleClearsFlagAndAbsorbs ==
    [][Len(inFlight') < Len(inFlight) =>
          ~isAiThinkingRef' /\ ~isAiThinking' /\ crashed' = crashed]_vars

\* the part of C7 about the flag alone
SettleClearsFlag ==
    [][Len(inFlight') < Len(inFlight) => ~isAiThinkingRef' /\ ~isAiThinking']_vars

NumeralStrings == {"0", "1", "2"}

\* v is present and is neither a number nor the numeral of one
NotANumber(v) ==
    /\ v.t \notin {"undefined", "number"}
    /\ ~(v.t = "string" /\ v.s \in NumeralStrings)

\* the failure kinds of C8
FailureKind(o) ==
    \/ o.kind = "transport"
    \/ o.kind = "text" /\ ~o.empty /\ ~o.wellFormed
    \/ /\ o.kind = "text" /\ o.wellFormed /\ o.json.t = "object"
       /\ \/ Undef \in {o.json.targetRow, o.json.targetCol, o.json.recommendedColor}
          \/ NotANumber(o.json.targetRow)
          \/ NotANumber(o.json.targetCol)

FallbackNotes == {"AI unreachable", "AI parse error", "AI coordination error"}

\* the reply is the local fallback hint with a diagnostic error note
IsFallback(call) ==
    /\ ~call.reply.rejected
    /\ call.reply.error # ""
    /\ \E msg \in FallbackNotes : call.reply.hint = getBestLocalTarget(call.targets, msg)

\* C8: for a transport error, an unparseable text, a response missing
\* targetRow, targetCol or recommendedColor, and a response whose coordinates
\* are not numbers, getStrategicHint returns the local fallback hint with a
\* diagnostic error note and does not throw.
C8_FailureKindsFallBack ==
    hintCall.done /\ FailureKind(hintCall.outcome) => IsFallback(hintCall)

\* C9: the recommended colour and the selected colour are never set to a
\* value outside the six recognised colours.
C9_OnlyRecognisedColours ==
    /\ selectedColor \in ValidColors
    /\ aiRecommendedColor \in ValidColors \cup {NoColor}

GridSlotPositions ==
    {getBubblePos(slot[1], slot[2], CanvasWidth) : slot \in SeqToSet(SlotSeq(SNAP_ROWS))}

\* C10: coordinates outside the grid never become the aim marker: the aim
\* marker, when set, is the position of a slot of the grid.
C10_AimMarkerOnGrid ==
    aimTarget.set => \E p \in GridSlotPositions : aimTarget = Target(p)

----------------------------------------------------------------------------
(* The selected colour and the fallback hint *)

ActiveColours(bs) == {bs[k].color : k \in ActiveIdx(bs)}

\* C11: whenever at least one active bubble exists, the selected colour is
\* the colour of some active bubble.
C11_SelectedColourAvailable ==
    ActiveIdx(bubbles) # {} => selectedColor \in ActiveColours(bubbles)

\* the same for a selected colour that is one of the six recognised colours
SelectedRecognisedColourAvailable ==
    (ActiveIdx(bubbles) # {} /\ selectedColor \in ValidColors)
        => selectedColor \in ActiveColours(bubbles)

\* the message getBestLocalTarget has as the default of its parameter (the
\* dash of the source text is written " - ")
NoClearShotMessage == Msg("No clear shots - play defensively.")

\* the call failed: the external call rejected
CallFailed(o) == o.kind = "transport"

\* the hint carries no target row, column or colour
HintWithoutTarget(hint) ==
    /\ hint.targetRow = Undef
    /\ hint.targetCol = Undef
    /\ hint.recommendedColor = Undef

\* C12: when the advisor call fails and the candidate list is empty, the
\* hint's message says that there is no clear shot, the hint carries no
\* target row, column or colour, and no exception escapes.
C12_NoClearShotOnFailure ==
    (hintCall.done /\ CallFailed(hintCall.outcome) /\ hintCall.targets = << >>)
        => /\ ~hintCall.reply.rejected
           /\ HintWithoutTarget(hintCall.reply.hint)
           /\ hintCall.reply.hint.message = NoClearShotMessage

\* the parts of C12 other than the wording of the message
NoTargetOnFailure ==
    (hintCall.done /\ CallFailed(hintCall.outcome) /\ hintCall.targets = << >>)
        => /\ ~hintCall.reply.rejected
           /\ HintWithoutTarget(hintCall.reply.hint)

----------------------------------------------------------------------------
(* The points of a match and of the floating bubbles *)

\* floor(0.75 * points of the colour), summed over the bubbles of idx
RECURSIVE DropBonus(_, _)
DropBonus(bs, idx) ==
    IF idx = {} THEN 0
    ELSE LET k == CHOOSE j \in idx : TRUE
         IN  (ColorPoints(bs[k].color) * 3) \div 4 + DropBonus(bs, idx \ {k})

\* the bubbles a collision step deactivates outside the same-colour set of
\* the new bubble
DroppedBeside(matched) ==
    {k \in ActiveIdx(StoreAtCollision) \ matched : ~bubbles'[k].active}

\* floor(n * p * m) with m = 1.5 for more than three bubbles and 1 for three
MatchAward(n, p) == IF n > 3 THEN (n * p * 3) \div 2 ELSE n * p

\* the points a collision step adds for its match: what it adds to the score
\* less the bonus of the floating bubbles it drops
MatchPoints(matched) ==
    (score' - score) - DropBonus(StoreAtCollision, DroppedBeside(matched))

\* C13: match score formula.  A collision step whose new bubble has a
\* same-colour connected set of n >= 3 bubbles of p points each adds exactly
\* floor(n * p * m) points for the match, m = 1.5 when n > 3 and m = 1 when
\* n = 3; when no other bubble is dropped this is the whole change of the
\* score (600 for four red bubbles), and the score shown equals the score
\* kept.
C13_MatchScoreFormula ==
    [][(/\ Len(bubbles') = Len(bubbles) + 1
        /\ StoreAtCollision[Len(bubbles')].color \in ValidColors
        /\ Cardinality(SameColourSet(StoreAtCollision, Len(bubbles'))) >= MIN_MATCH)
          => /\ MatchPoints(SameColourSet(StoreAtCollision, Len(bubbles')))
                   = MatchAward(Cardinality(SameColourSet(StoreAtCollision, Len(bubbles'))),
                                ColorPoints(StoreAtCollision[Len(bubbles')].color))
             /\ score' = scoreRef']_vars

\* a red shot completed a set of four red bubbles, nothing else was dropped,
\* and the score is 600
C13_FourRedScore600 ==
    /\ score = 600
    /\ Len(bubbles) > 0
    /\ bubbles[Len(bubbles)].id[3] > 0
    /\ Cardinality({k \in 1..Len(bubbles) : ~bubbles[k].active}) = 4
    /\ \A k \in 1..Len(bubbles) : ~bubbles[k].active => bubbles[k].color = "red"

\* a match of exactly three bubbles has been scored without a multiplier
C13_ThreeScored ==
    /\ score = 300
    /\ Cardinality({k \in 1..Len(bubbles) : ~bubbles[k].active}) = 3
    /\ \A k \in 1..Len(bubbles) : ~bubbles[k].active => bubbles[k].color = "red"

\* the active bubbles of bs without a path of adjacent active bubbles to an
\* active bubble of row 0
Floaters(bs) == ActiveIdx(bs) \ Anchored(bs)

\* C14: floating-bubble removal.  The first run of dropFloatingBubbles on a
\* board deactivates exactly the active bubbles that have no path of adjacent
\* active bubbles to an active bubble of row 0, changes nothing else of the
\* store, and adds floor(0.75 * points) for each bubble it drops; the score
\* shown follows the score kept.
C14_DropsExactlyFloaters ==
    [][unit'.runs = 1 =>
          /\ bubbles' = [k \in 1..Len(bubbles) |->
                            IF k \in Floaters(bubbles)
                            THEN [bubbles[k] EXCEPT !.active = FALSE]
                            ELSE bubbles[k]]
          /\ ActiveIdx(bubbles') = Anchored(bubbles)
          /\ scoreRef' = scoreRef + DropBonus(bubbles, Floaters(bubbles))
          /\ score' = scoreRef']_vars

\* both bubbles of row 0 were popped and exactly five active bubbles hung
\* below as one chain: the run dropped all five
C14_ChainOfFiveDropped ==
    /\ unit.fn = "dropFloatingBubbles"
    /\ unit.runs = 1
    /\ Cardinality(ActiveIdx(unit.before)) = 5
    /\ \A k \in ActiveIdx(unit.before) :
          /\ unit.before[k].row > 0
          /\ Closure(unit.before, ActiveIdx(unit.before), {k}) = ActiveIdx(unit.before)
    /\ ActiveIdx(bubbles) = {}
    /\ scoreRef = DropBonus(unit.before, ActiveIdx(unit.before))
    /\ scoreRef > 0

\* C16: idempotence.  A second run of dropFloatingBubbles immediately after
\* the first deactivates no bubble and leaves the score unchanged.
C16_DropIdempotent ==
    [][unit'.runs = 2 =>
          bubbles' = bubbles /\ scoreRef' = scoreRef /\ score' = score]_vars

\* the second run followed a first run that dropped bubbles and kept others
C16_SecondRunAfterDrop ==
    /\ unit.fn = "dropFloatingBubbles"
    /\ unit.runs = 2
    /\ ActiveIdx(bubbles) # {}
    /\ ActiveIdx(bubbles) # ActiveIdx(unit.before)

----------------------------------------------------------------------------
(* Adjacency *)

\* C15: adjacency is symmetric.  For every pair of grid positions a and b,
\* of any rows and columns and of either row parity, isNeighbor(a, b) equals
\* isNeighbor(b, a), and no position is a neighbour of itself.
C15_NeighborSymmetric ==
    (unit.fn = "isNeighbor" /\ unit.done)
        => /\ unit.ab = unit.ba
           /\ (unit.a = unit.b => ~unit.ab)

\* two positions of different rows, the first of an even row and to the
\* right of the second, are neighbours both ways
C15_NeighborsAcrossRows ==
    /\ unit.fn = "isNeighbor"
    /\ unit.done
    /\ ~IsOddRow(unit.a.row)
    /\ unit.b.row = unit.a.row + 1
    /\ unit.b.col = unit.a.col - 1
    /\ unit.ab
    /\ unit.ba

----------------------------------------------------------------------------
(* The local fallback target *)

ClusterValue(c) == c.size * c.pointsPerBubble

\* the candidates of q with the maximal cluster value
MostValuable(q) ==
    {i \in 1..Len(q) : \A j \in 1..Len(q) : ClusterValue(q[j]) <= ClusterValue(q[i])}

\* C17: with a non-empty candidate list, the hint of getBestLocalTarget
\* targets a candidate whose size * pointsPerBubble is maximal over the list
\* and, among the candidates with that maximal product, one with the
\* smallest row; the hint's target row, column and recommended colour are
\* those of that candidate.
C17_BestLocalTarget ==
    (unit.fn = "getBestLocalTarget" /\ unit.done /\ Len(unit.targets) > 0)
        => \E i \in MostValuable(unit.targets) :
              /\ \A j \in MostValuable(unit.targets) :
                     unit.targets[i].row <= unit.targets[j].row
              /\ unit.hint.targetRow = Num(unit.targets[i].row)
              /\ unit.hint.targetCol = Num(unit.targets[i].col)
              /\ unit.hint.recommendedColor = Str(unit.targets[i].color)

\* the list starts with a most valuable candidate of a lower row of the
\* board and holds an equally valuable one of row 0, which the hint targets
C17_TieBrokenByRow ==
    /\ unit.fn = "getBestLocalTarget"
    /\ unit.done
    /\ Len(unit.targets) > 1
    /\ 1 \in MostValuable(unit.targets)
    /\ unit.targets[1].row > 0
    /\ \E j \in MostValuable(unit.targets) : unit.targets[j].row = 0
    /\ unit.hint.targetRow = Num(0)

----------------------------------------------------------------------------
(* The flight timeout and the drag clamp *)

\* the step is the tick in which the flight is found older than the timeout
FlightTimesOut ==
    isFlying /\ ~isFlying' /\ flightAge + TickMs > FLIGHT_TIMEOUT_MS

\* C18: flight timeout.  The tick that finds the flight older than the
\* timeout puts the projectile at rest at the anchor and changes nothing
\* else: the store of bubbles, the score, the selected colour, the colours
\* on offer and the state of the advisory cycle stay as they are, and the
\* tick requests no capture of its own (it only serves a request that was
\* already pending).
C18_TimeoutOnlyResets ==
    [][FlightTimesOut =>
          /\ ballPos' = anchorBall
          /\ ~isPinching'
          /\ bubbles' = bubbles
          /\ score' = score
          /\ scoreRef' = scoreRef
          /\ selectedColor' = selectedColor
          /\ selectedColorRef' = selectedColorRef
          /\ availableColors' = availableColors
          /\ inFlight' = inFlight
          /\ isAiThinking' = isAiThinking
          /\ aimTarget' = aimTarget
          /\ aiHint' = aiHint
          /\ crashed' = crashed
          /\ ~captureRequestRef'
          /\ pendingAnalysis' = pendingAnalysis + (IF captureRequestRef THEN 1 ELSE 0)]_vars

\* the first shot is over and has left no bubble: its flight timed out
C18_ShotTimedOut ==
    /\ shots = 1
    /\ ~isFlying
    /\ ~isPinching
    /\ ballPos = anchorBall
    /\ \A k \in 1..Len(bubbles) : bubbles[k].id[3] = 0
    /\ score = 0
    /\ ~crashed

MaxDragSq == (MAX_DRAG_DIST * SCALE) * (MAX_DRAG_DIST * SCALE)

\* q lies on the ray from the anchor through p
SameDirection(p, q) ==
    /\ (p.x - anchorBall.x) * (q.y - anchorBall.y)
           = (p.y - anchorBall.y) * (q.x - anchorBall.x)
    /\ (p.x - anchorBall.x) * (q.x - anchorBall.x)
           + (p.y - anchorBall.y) * (q.y - anchorBall.y) > 0

\* C19: drag clamp.  After a tick in which the pinch holds the projectile,
\* the projectile is no further from the anchor than MAX_DRAG_DIST: a pinch
\* point within the maximum, or exactly at it, is used unchanged, and a pinch
\* point beyond it is replaced by the point at exactly the maximum distance
\* in the same direction from the anchor.
C19_DragClamped ==
    (unit.fn = "gesture" /\ unit.done)
        => /\ unit.g.isPinching
           /\ DistSq(unit.g.ballPos, anchorBall) <= MaxDragSq
           /\ (DistSq(unit.hand.pos, anchorBall) <= MaxDragSq
                  => unit.g.ballPos = unit.hand.pos)
           /\ (DistSq(unit.hand.pos, anchorBall) > MaxDragSq
                  => /\ DistSq(unit.g.ballPos, anchorBall) = MaxDragSq
                     /\ SameDirection(unit.hand.pos, unit.g.ballPos))

\* a pinch point beyond the maximum, off both axes, was replaced by the
\* point at the maximum distance
C19_ClampedOffAxis ==
    /\ unit.fn = "gesture"
    /\ unit.done
    /\ DistSq(unit.hand.pos, anchorBall) > MaxDragSq
    /\ unit.hand.pos.x # anchorBall.x
    /\ unit.hand.pos.y # anchorBall.y
    /\ unit.g.ballPos # unit.hand.pos
    /\ DistSq(unit.g.ballPos, anchorBall) = MaxDragSq

\* in the game, a held projectile is never further from the anchor than
\* MAX_DRAG_DIST
HeldWithinMaxDrag ==
    isPinching => DistSq(ballPos, anchorBall) <= MaxDragSq

----------------------------------------------------------------------------
(* The aim marker *)

\* the hint on display is the one getBestLocalTarget gives for an empty
\* candidate list: it has no target
HintShownHasNoTarget == aiHint \in {Msg(note) : note \in FallbackNotes}

\* C20: after an advisory cycle whose hint has no target (there were no
\* candidates), no aim marker is present, also when an earlier cycle had
\* set one.
C20_NoMarkerWithoutTarget == HintShownHasNoTarget => ~aimTarget.set

\* the same with one request at a time: no other request is outstanding when
\* the hint without target is on display
NoMarkerWithoutTargetAlone ==
    (HintShownHasNoTarget /\ inFlight = << >> /\ pendingAnalysis = 0 /\ ~crashed)
        => ~aimTarget.set

----------------------------------------------------------------------------
(* The collision resolution *)

\* the step resolves a collision of the flying projectile: it pushes a bubble
CollisionResolves == isFlying /\ Len(bubbles') = Len(bubbles) + 1

\* where the sub-steps of the tick stop the projectile
CollisionPoint == Integrate(bubbles, ballPos, ballVel).pos

\* the slots of the scanned rows that no active bubble of bs occupies
FreeSlots(bs) ==
    {s \in SeqToSet(SlotSeq(SNAP_ROWS)) :
        ~\E k \in ActiveIdx(bs) : bs[k].row = s[1] /\ bs[k].col = s[2]}

SlotDistSq(pos, s) == DistSq(pos, Deci(getBubblePos(s[1], s[2], CanvasWidth)))

\* the bubble nb sits in a free slot of bs nearest to pos
AtNearestFreeSlot(bs, pos, nb) ==
    /\ <<nb.row, nb.col>> \in FreeSlots(bs)
    /\ Pt(nb.x, nb.y) = getBubblePos(nb.row, nb.col, CanvasWidth)
    /\ \A s \in FreeSlots(bs) : SlotDistSq(pos, <<nb.row, nb.col>>) <= SlotDistSq(pos, s)

\* what a collision resolution does besides choosing the slot
CollisionEffects ==
    /\ bubbles'[Len(bubbles')].color = selectedColorRef
    /\ \A k \in 1..Len(bubbles) : bubbles'[k] = bubbles[k] \/ ~bubbles'[k].active
    /\ bubbles'[Len(bubbles')].active
           = (Cardinality(SameColourSet(StoreAtCollision, Len(bubbles'))) < MIN_MATCH)
    /\ ~isFlying'
    /\ ~isPinching'
    /\ ballPos' = anchorBall
    /\ ~captureRequestRef'
    /\ pendingAnalysis' = pendingAnalysis + 1

\* C21: every collision resolution adds exactly one bubble of the selected
\* colour, at the slot nearest to the projectile among the slots no active
\* bubble occupies (such a slot always exists), runs the match check on it,
\* puts the projectile at rest at the anchor and requests a capture, which
\* the same tick turns into a scheduled advisory cycle.
C21_CollisionResolution ==
    [][CollisionResolves =>
          /\ AtNearestFreeSlot(bubbles, CollisionPoint, StoreAtCollision[Len(bubbles')])
          /\ CollisionEffects]_vars

\* the same for the collisions that find a free slot
CollisionResolutionWithFreeSlot ==
    [][(CollisionResolves /\ FreeSlots(bubbles) # {}) =>
          /\ AtNearestFreeSlot(bubbles, CollisionPoint, StoreAtCollision[Len(bubbles')])
          /\ CollisionEffects]_vars

\* the effects of a collision resolution, with or without a free slot
CollisionResolutionEffects == [][CollisionResolves => CollisionEffects]_vars

\* every push of a bubble happens in a tick that found the projectile flying
PushOnlyInFlight == [][Len(bubbles') # Len(bubbles) => CollisionResolves]_vars

----------------------------------------------------------------------------
(* The projectile's states *)

\* C22: every flight ends.  While frames keep arriving (no exception has
\* stopped the frame loop), a flying projectile is eventually at rest again,
\* by collision or by timeout, whether or not a request is outstanding and
\* whether or not it ever settles.
C22_EveryFlightEnds == isFlying ~> (~isFlying \/ crashed)

\* a flight has ended while a request was outstanding and the flag locked
\* the gesture branch
C22_FlightEndedWhileThinking ==
    /\ shots > 0
    /\ ~isFlying
    /\ ~crashed
    /\ inFlight # << >>
    /\ isAiThinkingRef

\* the step is the tick in which the pinch that held the projectile is over
PinchEnds == isPinching /\ ~isPinching'

MinLaunchSq == (MIN_LAUNCH_DIST * SCALE) * (MIN_LAUNCH_DIST * SCALE)

\* C23: launch or cancel.  When the pinch is released or the hand is lost
\* while the projectile is held and no advisory request is outstanding, the
\* projectile flies if and only if its distance from the anchor exceeds
\* MIN_LAUNCH_DIST; otherwise it is put back at the anchor, at rest, and no
\* flight starts.  In both cases the store of bubbles and the score are
\* unchanged.
C23_LaunchOrCancel ==
    [][(PinchEnds /\ inFlight = << >> /\ ~isAiThinkingRef) =>
          /\ IF DistSq(ballPos, anchorBall) > MinLaunchSq
             THEN isFlying' /\ shots' = shots + 1 /\ flightAge' = 0
             ELSE ~isFlying' /\ shots' = shots /\ ballPos' = anchorBall
          /\ bubbles' = bubbles
          /\ score' = score
          /\ scoreRef' = scoreRef]_vars

\* the first flight has just started from a pull at the maximum distance,
\* after the first advisory cycle was over
C23_LaunchedAfterRelease ==
    /\ shots = 1
    /\ isFlying
    /\ ~isPinching
    /\ flightAge = 0
    /\ ballVel # Pt(0, 0)
    /\ ~timerPending
    /\ inFlight = << >>
    /\ pendingAnalysis = 0
    /\ ~isAiThinkingRef

\* the gesture branch on its own, with the pull at, just below and just
\* above MIN_LAUNCH_DIST
ReleaseAtThreshold ==
    (unit.fn = "gesture" /\ unit.released)
        => /\ ~unit.after.isPinching
           /\ unit.after.isFlying = (DistSq(unit.g.ballPos, anchorBall) > MinLaunchSq)
           /\ unit.after.launched = unit.after.isFlying
           /\ ~unit.after.isFlying => unit.after.ballPos = anchorBall

----------------------------------------------------------------------------
(* What a settlement and what the game may change *)

\* the step is the completion of an advisory request
RequestSettles == Len(inFlight') < Len(inFlight)

\* C24: the completion of an advisory request, by success or by failure, of
\* the latest request or of an earlier one, leaves the store of bubbles with
\* every active flag, the score, and the projectile's position, velocity and
\* state (held, flying, age of the flight) unchanged, and schedules nothing.
C24_SettlementTouchesAdvisorStateOnly ==
    [][RequestSettles =>
          /\ bubbles' = bubbles
          /\ score' = score
          /\ scoreRef' = scoreRef
          /\ ballPos' = ballPos
          /\ ballVel' = ballVel
          /\ isPinching' = isPinching
          /\ isFlying' = isFlying
          /\ flightAge' = flightAge
          /\ shots' = shots
          /\ availableColors' = availableColors
          /\ captureRequestRef' = captureRequestRef
          /\ pendingAnalysis' = pendingAnalysis]_vars

\* a request has settled during a flight: the hint and the aim marker are
\* those of the response and the flight goes on
C24_SettledDuringFlight ==
    /\ isFlying
    /\ flightAge > 0
    /\ ~crashed
    /\ inFlight = << >>
    /\ ~isAiThinking
    /\ aimTarget.set
    /\ aiHint = Msg("Aim here")

\* the fields of a bubble that are fixed at its creation
Fixed(b) == <<b.id, b.row, b.col, b.x, b.y, b.color>>

\* C25: the store is append-only and a bubble's life is one-way.  No step
\* removes a bubble from the store, makes an inactive bubble active again, or
\* changes the id, row, col, position or colour of a bubble.
C25_StoreAppendOnly ==
    [][/\ Len(bubbles') >= Len(bubbles)
       /\ \A k \in 1..Len(bubbles) :
             /\ Fixed(bubbles'[k]) = Fixed(bubbles[k])
             /\ ~bubbles[k].active => ~bubbles'[k].active]_vars

\* the store holds a popped bubble of the initial grid, in its place, and an
\* active bubble of a later shot behind it
C25_PoppedAndPushed ==
    /\ \E k \in 1..Len(bubbles) : ~bubbles[k].active /\ bubbles[k].id[3] = 0
    /\ Len(bubbles) > 0
    /\ bubbles[Len(bubbles)].active
    /\ bubbles[Len(bubbles)].id[3] > 1

----------------------------------------------------------------------------
(* The candidate list *)

\* the maximal set of active bubbles of the colour of bubble k that are
\* connected to it through neighbours of that colour
RECURSIVE GrowCluster(_, _)
GrowCluster(bs, seed) ==
    LET more == {j \in ActiveIdx(bs) \ seed :
                    \E i \in seed : bs[j].color = bs[i].color /\ isNeighbor(bs[i], bs[j])}
    IN  IF more = {} THEN seed ELSE GrowCluster(bs, seed \cup more)

ClusterOf(bs, k) == GrowCluster(bs, {k})

ClearMembers(bs, k) == {j \in ClusterOf(bs, k) : isPathClear(bs, bs[j])}

\* the bubble of the store a candidate names
AnchorOf(bs, c) == CHOOSE k \in 1..Len(bs) : bs[k].id = c.id

\* candidate c reports the cluster of its anchor as the claim says
ReportsItsCluster(bs, c) ==
    /\ \E k \in ActiveIdx(bs) : bs[k].id = c.id
    /\ AnchorOf(bs, c) \in ClearMembers(bs, AnchorOf(bs, c))
    /\ \A j \in ClearMembers(bs, AnchorOf(bs, c)) : bs[j].y <= bs[AnchorOf(bs, c)].y
    /\ c.row = bs[AnchorOf(bs, c)].row
    /\ c.col = bs[AnchorOf(bs, c)].col
    /\ c.color = bs[AnchorOf(bs, c)].color
    /\ c.size = Cardinality(ClusterOf(bs, AnchorOf(bs, c)))
    /\ c.pointsPerBubble = ColorPoints(c.color)

\* C26: getAllReachableClusters emits at most one candidate per maximal
\* same-colour connected cluster of active bubbles and exactly one for each
\* cluster that has a member with a clear path; the candidate's anchor is
\* the clear-path member with the greatest y of the cluster, its colour is
\* the cluster's and its size the number of bubbles of the whole cluster.
C26_OneCandidatePerClearCluster ==
    (unit.fn = "getAllReachableClusters" /\ unit.done)
        => /\ ~unit.threw
           /\ \A i \in 1..Len(unit.out) : ReportsItsCluster(bubbles, unit.out[i])
           /\ \A i, j \in 1..Len(unit.out) :
                  i # j => AnchorOf(bubbles, unit.out[i])
                               \notin ClusterOf(bubbles, AnchorOf(bubbles, unit.out[j]))
           /\ \A k \in ActiveIdx(bubbles) :
                  ClearMembers(bubbles, k) # {}
                      => \E i \in 1..Len(unit.out) :
                             AnchorOf(bubbles, unit.out[i]) \in ClusterOf(bubbles, k)

\* a cluster has clear-path members in two rows and was reported by the one
\* of the lower row, next to a cluster that has no member with a clear path
\* and was left out
C26_LowestClearMemberReported ==
    /\ unit.fn = "getAllReachableClusters"
    /\ unit.done
    /\ \E i \in 1..Len(unit.out) :
          \E j \in ClearMembers(bubbles, AnchorOf(bubbles, unit.out[i])) :
              bubbles[j].row < unit.out[i].row
    /\ \E k \in ActiveIdx(bubbles) : ClearMembers(bubbles, k) = {}


----------------------------------------------------------------------------
(* The three states of the projectile *)

RESTING == ~isPinching /\ ~isFlying
AIMING == isPinching /\ ~isFlying
FLYING == isFlying /\ ~isPinching

\* C27: at the end of every tick the projectile is in exactly one of
\* RESTING, AIMING and FLYING: the pinching and the flying flag are never
\* both true, AIMING is entered only from RESTING and FLYING only from
\* AIMING.
C27_OneProjectileState ==
    /\ [](~(isPinching /\ isFlying))
    /\ [][/\ (AIMING' /\ ~AIMING) => RESTING
          /\ (FLYING' /\ ~FLYING) => AIMING]_vars

\* a second shot is in flight: the projectile went from rest to aim to
\* flight, came to rest with its bubble on the board, and did so again
C27_SecondShotInFlight ==
    /\ FLYING
    /\ \E k \in 1..Len(bubbles) : bubbles[k].id[3] > 0


----------------------------------------------------------------------------
(* The aim and the thinking flag *)

\* the projectile is held while the thinking flag is true
LockedAim == AIMING /\ isAiThinkingRef

CancelledAtAnchor == RESTING /\ ballPos = anchorBall

\* C28: if the thinking flag becomes true while the projectile is AIMING,
\* the next tick cancels the aim: it puts the projectile at the anchor in
\* RESTING and no flight starts from that pull, whatever the pull distance
\* and whether or not the pinch is still held.  Until that tick the aim
\* stays locked: no step leaves the projectile held with the flag cleared.
C28_NextTickCancelsAim ==
    [][LockedAim => (LockedAim' \/ CancelledAtAnchor')]_vars

\* C28 for a tick that finds the thinking flag true: a tick that starts
\* with the projectile AIMING and isAiThinkingRef true puts the projectile
\* at the anchor in RESTING and starts no flight, whatever the pull distance
\* and whether or not the pinch is still held.
C28_LockedTickCancelsAim ==
    [][(LockedAim /\ FrameArrives) =>
          /\ CancelledAtAnchor'
          /\ shots' = shots
          /\ bubbles' = bubbles]_vars

\* the projectile is held beyond the launch distance, the thinking flag has
\* become true since the pinch began, and the next frame is due
C28_PulledWhenThinkingBegan ==
    /\ LockedAim
    /\ DistSq(ballPos, anchorBall) > MinLaunchSq
    /\ inFlight # << >>
    /\ pendingAnalysis = 0
    /\ ~crashed

====
